---------------------------- MODULE Spec2Model ----------------------------
(***************************************************************************)
(* A model of the LME molecular-structure composition engine: the sparse   *)
(* structure model (sparse_molecule.rs), stack materialization with its    *)
(* memoizing cache and the step runners (workflow/runner.rs), the step     *)
(* cursor (workflow/step.rs) and the checkpointing workflow driver         *)
(* (workflow/src/main.rs).                                                 *)
(*                                                                         *)
(* Conventions.  A Rust Option<T> is a sequence of length at most one:     *)
(* None is << >> and Some(x) is <<x>>.  A Result<T, E> is a record         *)
(* [ok |-> TRUE, val |-> v] or [ok |-> FALSE, err |-> e].  A position is a *)
(* triple of integers.                                                     *)
(***************************************************************************)
EXTENDS Integers, Sequences, FiniteSets, TLC

VARIABLES
    \* ---- the structures exercised on their own (sparse_molecule.rs)
    atoms,          \* the SparseAtomList under test
    matrix,         \* the SparseBondMatrix under test
    molecule,       \* the SparseMolecule under test
    atomOp,         \* the last operation applied to one of them and what it
                    \* returned (or the value it was applied to)
    tempDir,        \* the temporary directory of the Function runner: None,
                    \* or Some(the names of the files in it)
    \* ---- the files the workflow driver works on
    input,          \* lme_workflow.inp.yaml: [base, steps, no_checkpoint]
    skipFile,       \* lme_workflow.chk.skip: None, or Some(its text)
    dataFile,       \* lme_workflow.chk.data: None, or Some(its content)
    outFiles,       \* the files OutputXYZ wrote, by path
    \* ---- the workflow driver process (workflow/src/main.rs)
    pc,             \* where the process is
    index,          \* the step the loop is at
    workflow_data,  \* the live WorkflowData
    checkpoint,     \* the in-memory WorkflowCheckPoint
    cache,          \* the process-wide cache of cached_read_stack
    \* ---- what an observer of the driver has seen (not read by the program)
    hist

atomVars == <<atoms, matrix, molecule, atomOp, tempDir>>
diskVars == <<skipFile, dataFile, outFiles>>
procVars == <<pc, index, workflow_data, checkpoint, cache>>
runVars == <<input, skipFile, dataFile, outFiles, pc, index, workflow_data,
             checkpoint, cache, hist>>
vars == <<atoms, matrix, molecule, atomOp, tempDir, input, skipFile, dataFile, outFiles, pc, index,
          workflow_data, checkpoint, cache, hist>>

-----------------------------------------------------------------------------
(* Option and Result *)

None == << >>
Some(x) == <<x>>
IsSome(o) == Len(o) = 1
Unwrap(o) == o[1]
\* Option::or
OrElse(o, other) == IF IsSome(o) THEN o ELSE other

Ok(v) == [ok |-> TRUE, val |-> v]
Err(e) == [ok |-> FALSE, err |-> e]

Max(a, b) == IF a >= b THEN a ELSE b

-----------------------------------------------------------------------------
(* Atoms and the sparse atom list: sparse_molecule.rs *)

\* chemistry::validated_element_num: atomic numbers 1..118 are valid.
ValidatedElementNum(e) == e \in 1..118

Atom3D(e, p) == [element |-> e, position |-> p]

\* The test the list applies to every cell:
\* item.map(|atom| validated_element_num(atom.element)).unwrap_or_default()
PresentValid(cell) == IsSome(cell) /\ ValidatedElementNum(Unwrap(cell).element)

\* SparseAtomList::new
AtomListNew(capacity) == [i \in 1..capacity |-> None]

\* SparseAtomList::extend_to
AtomListExtendTo(list, capacity) ==
    IF Len(list) < capacity
    THEN list \o [i \in 1..(capacity - Len(list)) |-> None]
    ELSE list

\* SparseAtomList::offset
AtomListOffset(list, offset) == [i \in 1..offset |-> None] \o list

\* SparseAtomList::read_atom (0-based index; out of range reads as a hole)
ReadAtom(list, idx) == IF idx >= 0 /\ idx < Len(list) THEN list[idx + 1] ELSE None

\* a migrate in which only the atoms with a valid element overwrite
AtomListMigrateValidOnly(list, other) ==
    LET ext == AtomListExtendTo(list, Max(Len(list), Len(other)))
    IN  [i \in 1..Len(ext) |->
            IF PresentValid(ReadAtom(other, i - 1)) THEN ReadAtom(other, i - 1)
            ELSE ext[i]]

\* SparseAtomList::migrate
AtomListMigrate(list, other) ==
    LET ext == AtomListExtendTo(list, Max(Len(list), Len(other)))
    IN  [i \in 1..Len(ext) |-> OrElse(ReadAtom(other, i - 1), ext[i])]

\* .take(n).filter(present and valid).count()
RECURSIVE CountValidBelow(_, _)
CountValidBelow(list, n) ==
    IF n <= 0 \/ Len(list) = 0 THEN 0
    ELSE CountValidBelow(Tail(list), n - 1)
         + (IF PresentValid(Head(list)) THEN 1 ELSE 0)

\* SparseAtomList::to_continuous_index
ToContinuousIndex(list, idx) ==
    IF PresentValid(ReadAtom(list, idx))
    THEN Some(CountValidBelow(list, idx))
    ELSE None

\* .enumerate().filter(present and valid): the sparse indexes kept, in order
RECURSIVE ValidIndexesFrom(_, _)
ValidIndexesFrom(list, at) ==
    IF Len(list) = 0 THEN << >>
    ELSE (IF PresentValid(Head(list)) THEN <<at>> ELSE << >>)
         \o ValidIndexesFrom(Tail(list), at + 1)

\* .take(n).last() of a sequence
TakeLast(kept, n) ==
    LET taken == SubSeq(kept, 1, IF n < Len(kept) THEN n ELSE Len(kept))
    IN  IF Len(taken) = 0 THEN None ELSE Some(taken[Len(taken)])

\* from_continuous_index taking one item too few: .take(index)
FromContinuousIndexTakeIndex(list, k) == TakeLast(ValidIndexesFrom(list, 0), k)

\* SparseAtomList::from_continuous_index: .take(index + 1).last()
FromContinuousIndex(list, k) == TakeLast(ValidIndexesFrom(list, 0), k + 1)

-----------------------------------------------------------------------------
(* The sparse bond matrix: sparse_molecule.rs *)

NoneRow(n) == [j \in 1..n |-> None]

\* SparseBondMatrix::new
BondNew(capacity) == [i \in 1..capacity |-> NoneRow(capacity)]

\* SparseBondMatrix::new_filled
BondNewFilled(capacity) == [i \in 1..capacity |-> [j \in 1..capacity |-> Some(0)]]

\* SparseBondMatrix::extend_to
BondExtendTo(m, capacity) ==
    IF Len(m) < capacity
    THEN [i \in 1..Len(m) |-> m[i] \o NoneRow(capacity - Len(m))]
         \o [i \in 1..(capacity - Len(m)) |-> NoneRow(capacity)]
    ELSE m

\* SparseBondMatrix::offset
BondOffset(m, offset) ==
    [i \in 1..offset |-> NoneRow(offset + Len(m))]
    \o [i \in 1..Len(m) |-> NoneRow(offset) \o m[i]]

\* SparseBondMatrix::read_bond: self.0.get(a)?.get(b).copied().flatten()
ReadBond(m, a, b) ==
    IF a >= 0 /\ a < Len(m) /\ b >= 0 /\ b < Len(m[a + 1])
    THEN m[a + 1][b + 1]
    ELSE None

\* SparseBondMatrix::get_neighbors: the row of center, when there is one
GetNeighbors(m, center) ==
    IF center >= 0 /\ center < Len(m) THEN Some(m[center + 1]) ELSE None

\* a set_bond writing the cell [a][b] only
SetBondOneSide(m, a, b, bond) ==
    [BondExtendTo(m, Max(a, b) + 1) EXCEPT ![a + 1][b + 1] = bond]

\* SparseBondMatrix::set_bond
SetBond(m, a, b, bond) ==
    LET ext == BondExtendTo(m, Max(a, b) + 1)
        ab == [ext EXCEPT ![a + 1][b + 1] = bond]
    IN  [ab EXCEPT ![b + 1][a + 1] = bond]

\* SparseBondMatrix::migrate.  The loop visits every pair row_idx <= col_idx
\* below other.len() once and writes both cells of the pair, so that what it
\* leaves is: the matrix extended to other.len(), with the cells of every
\* pair below other.len() holding other's bond of the pair (read at
\* [row_idx][col_idx]), or self's where other has none
BondMigrate(self, other) ==
    IF Len(other) = 0 THEN self
    ELSE LET ext == BondExtendTo(self, Len(other))
         IN  [i \in 1..Len(ext) |-> [j \in 1..Len(ext[i]) |->
                IF i <= Len(other) /\ j <= Len(other)
                THEN OrElse(ReadBond(other, (IF i < j THEN i ELSE j) - 1, Max(i, j) - 1),
                            ReadBond(self, (IF i < j THEN i ELSE j) - 1, Max(i, j) - 1))
                ELSE ext[i][j]]]

\* SparseBondMatrix::migrate as its two loops run: for row_idx in
\* 0..other.len(), for col_idx in row_idx..other.len(), one set_bond
RECURSIVE BondMigrateLoop(_, _, _, _)
BondMigrateLoop(self, other, row_idx, col_idx) ==
    IF row_idx >= Len(other) THEN self
    ELSE IF col_idx >= Len(other)
    THEN BondMigrateLoop(self, other, row_idx + 1, row_idx + 1)
    ELSE BondMigrateLoop(
             SetBond(self, row_idx, col_idx,
                     OrElse(ReadBond(other, row_idx, col_idx),
                            ReadBond(self, row_idx, col_idx))),
             other, row_idx, col_idx + 1)

-----------------------------------------------------------------------------
(* The molecule: sparse_molecule.rs (SparseMolecule), with the title the   *)
(* MoleculeLayer of runner.rs and substituent.rs carries.  ids is an       *)
(* Option of a set of <<id, index>> pairs with one pair per id, groups an  *)
(* Option of a set of <<group, index>> pairs.                              *)

Molecule(a, b, i, g, t) ==
    [atoms |-> a, bonds |-> b, ids |-> i, groups |-> g, title |-> t]

\* SparseMolecule::default
MolDefault == Molecule(<< >>, << >>, None, None, "")

\* SparseMolecule::len
MolLen(m) == Len(m.atoms)

\* an extend_to that extends the atom list only
MolExtendAtomsOnly(m, capacity) == [m EXCEPT !.atoms = AtomListExtendTo(@, capacity)]

\* SparseMolecule::extend_to
MolExtendTo(m, capacity) ==
    [m EXCEPT !.atoms = AtomListExtendTo(@, capacity),
              !.bonds = BondExtendTo(@, capacity)]

\* BTreeMap::extend: the pairs of other replace those of the same key
MapExtend(pairs, other) ==
    {p \in pairs : ~\E q \in other : q[1] = p[1]} \cup other

\* a migrate that takes the ids and groups of other as they are
MolMigrateTakeOther(m, other) ==
    [m EXCEPT
        !.atoms = AtomListMigrate(@, other.atoms),
        !.bonds = BondMigrate(@, other.bonds),
        !.ids = other.ids,
        !.groups = other.groups]

\* SparseMolecule::migrate
MolMigrate(m, other) ==
    [m EXCEPT
        !.atoms = AtomListMigrate(@, other.atoms),
        !.bonds = BondMigrate(@, other.bonds),
        !.ids = IF IsSome(@) /\ IsSome(other.ids)
                THEN Some(MapExtend(Unwrap(@), Unwrap(other.ids)))
                ELSE OrElse(@, other.ids),
        !.groups = IF IsSome(@) /\ IsSome(other.groups)
                   THEN Some(Unwrap(@) \cup Unwrap(other.groups))
                   ELSE OrElse(@, other.groups)]

OffsetPairs(pairs, offset) == {<<p[1], p[2] + offset>> : p \in pairs}

\* an offset that leaves the indexes of the ids as they were
MolOffsetKeepIds(m, offset) ==
    [m EXCEPT
        !.atoms = AtomListOffset(@, offset),
        !.bonds = BondOffset(@, offset),
        !.groups = IF IsSome(@) THEN Some(OffsetPairs(Unwrap(@), offset)) ELSE None]

\* SparseMolecule::offset
MolOffset(m, offset) ==
    [m EXCEPT
        !.atoms = AtomListOffset(@, offset),
        !.bonds = BondOffset(@, offset),
        !.ids = IF IsSome(@) THEN Some(OffsetPairs(Unwrap(@), offset)) ELSE None,
        !.groups = IF IsSome(@) THEN Some(OffsetPairs(Unwrap(@), offset)) ELSE None]

-----------------------------------------------------------------------------
(* Errors *)

Error(kind, id, cause) == [kind |-> kind, id |-> id, cause |-> cause]
\* LayerStorageError
NoSuchLayer(id) == Error("NoSuchLayer", id, "")
FilterError(cause) == Error("FilterError", 0, cause)
\* A Rust panic (unwrap, expect, index out of bounds): the process aborts
Panic(cause) == Error("Panic", 0, cause)

-----------------------------------------------------------------------------
(* SparseAtomList::set_atoms: sparse_molecule.rs *)

\* len_after_set = (offset + atoms.len() - 1).max(self.len()) on usize: the
\* subtraction panics below zero; self.0[idx + offset] panics past the end.
AtomListSetAtoms(list, offset, new) ==
    IF offset + Len(new) - 1 < 0 THEN Err(Panic("attempt to subtract with overflow"))
    ELSE LET ext == AtomListExtendTo(list, Max(offset + Len(new) - 1, Len(list)))
         IN  IF offset + Len(new) > Len(ext)
             THEN Err(Panic("index out of bounds"))
             ELSE Ok([i \in 1..Len(ext) |->
                        IF i - 1 >= offset /\ i - 1 < offset + Len(new)
                        THEN new[i - offset] ELSE ext[i]])

\* SparseAtomList::isometry with a translation, over the selected indexes
Translate(p, t) == <<p[1] + t[1], p[2] + t[2], p[3] + t[3]>>

-----------------------------------------------------------------------------
(* Selectors (layer::SelectOne) *)

SelIndex(i) == [sel |-> "Index", index |-> i, id |-> ""]
SelId(name) == [sel |-> "Id", index |-> 0, id |-> name]

IdLookup(m, name) ==
    IF IsSome(m.ids) /\ \E p \in Unwrap(m.ids) : p[1] = name
    THEN Some((CHOOSE p \in Unwrap(m.ids) : p[1] = name)[2])
    ELSE None

\* SelectOne::to_index
SelToIndex(sel, m) == IF sel.sel = "Index" THEN Some(sel.index) ELSE IdLookup(m, sel.id)

\* SelectOne::get_atom
SelGetAtom(sel, m) ==
    IF IsSome(SelToIndex(sel, m)) THEN ReadAtom(m.atoms, Unwrap(SelToIndex(sel, m)))
    ELSE None

\* SelectOne::set_atom
SelSetAtom(sel, m, atom) ==
    IF IsSome(SelToIndex(sel, m))
    THEN LET set == AtomListSetAtoms(m.atoms, Unwrap(SelToIndex(sel, m)), <<atom>>)
         IN  IF set.ok THEN [m EXCEPT !.atoms = set.val] ELSE m
    ELSE m

-----------------------------------------------------------------------------
(* Layers (layer::Layer) and the layer storage (workspace::LayerStorage) *)

Fill(other) == [layer |-> "Fill", other |-> other, index |-> 0, atom |-> None,
                name |-> "", last |-> 0]
SetAtom(idx, atom) == [layer |-> "SetAtom", other |-> MolDefault, index |-> idx,
                       atom |-> atom, name |-> "", last |-> 0]
\* GroupMap(vec![(name, SelectMany::Range(0..=last))])
GroupMap(name, last) == [layer |-> "GroupMap", other |-> MolDefault, index |-> 0,
                         atom |-> None, name |-> name, last |-> last]

\* Layer::filter
LayerFilter(layer, m) ==
    CASE layer.layer = "Fill" ->
            Ok(MolMigrate(m, MolOffset(layer.other, MolLen(m))))
      [] layer.layer = "SetAtom" ->
            LET ext == MolExtendTo(m, layer.index + 1)
            IN  Ok([ext EXCEPT !.atoms[layer.index + 1] = layer.atom])
      [] layer.layer = "GroupMap" ->
            IF layer.last >= MolLen(m) THEN Err("RangeOutOfBounds")
            ELSE Ok([m EXCEPT !.groups =
                        Some((IF IsSome(@) THEN Unwrap(@) ELSE {})
                             \cup {<<layer.name, i>> : i \in 0..layer.last})])

\* LayerStorage: the layers in id order; the layer of id i is storage[i + 1].
\* LayerStorage::create_layers: appends, the new ids are one contiguous block
CreateLayers(storage, layers) == storage \o layers
CreatedIds(storage, layers) == [i \in 1..Len(layers) |-> Len(storage) + i - 1]

\* LayerStorage::read_layer
ReadLayer(storage, id) ==
    IF id >= 0 /\ id < Len(storage) THEN Some(storage[id + 1]) ELSE None

-----------------------------------------------------------------------------
(* Substituent attachment: substituent.rs.  Positions are integer triples; *)
(* the rotation is exact for the inputs used here, where the target        *)
(* direction a and the substituent direction b each lie along a            *)
(* coordinate axis (or are zero): the angle is then 0, pi/2 or pi.         *)

VSub(p, q) == <<p[1] - q[1], p[2] - q[2], p[3] - q[3]>>
VNeg(p) == <<0 - p[1], 0 - p[2], 0 - p[3]>>
VScale(c, p) == <<c * p[1], c * p[2], c * p[3]>>
Dot(p, q) == p[1] * q[1] + p[2] * q[2] + p[3] * q[3]
Cross(p, q) == <<p[2] * q[3] - p[3] * q[2],
                 p[3] * q[1] - p[1] * q[3],
                 p[1] * q[2] - p[2] * q[1]>>
VZero == <<0, 0, 0>>
Sign(x) == IF x > 0 THEN 1 ELSE IF x < 0 THEN 0 - 1 ELSE 0
AxisAligned(p) == Cardinality({i \in 1..3 : p[i] # 0}) <= 1

\* Unit::new_normalize(if axis.norm() == 0. { Vector3::x() } else { axis })
RotationAxis(a, b) ==
    LET axis == Cross(b, a)
    IN  IF axis = VZero THEN <<1, 0, 0>>
        ELSE <<Sign(axis[1]), Sign(axis[2]), Sign(axis[3])>>

\* <<cos, sin>> of angle = acos(b.a / (|a| |b|)), PI when that is NaN
RotationCosSin(a, b) ==
    IF a = VZero \/ b = VZero THEN <<0 - 1, 0>>
    ELSE IF Dot(b, a) > 0 THEN <<1, 0>>
    ELSE IF Dot(b, a) < 0 THEN <<0 - 1, 0>>
    ELSE <<0, 1>>

\* UnitQuaternion::new(angle * axis) applied to a point (Rodrigues)
Rotate(p, k, cs) ==
    Translate(Translate(VScale(cs[1], p), VScale(cs[2], Cross(k, p))),
              VScale((1 - cs[1]) * Dot(k, p), k))

\* the four isometries applied to every present atom of the substituent
AttachPoint(p, a, b, direction_position, exit_position) ==
    Translate(Translate(Rotate(Translate(p, VNeg(direction_position)),
                               RotationAxis(a, b), RotationCosSin(a, b)),
                        direction_position),
              VSub(exit_position, direction_position))

AttachAtoms(list, a, b, direction_position, exit_position) ==
    [i \in 1..Len(list) |->
        IF IsSome(list[i])
        THEN Some([Unwrap(list[i]) EXCEPT
                     !.position = AttachPoint(@, a, b, direction_position,
                                              exit_position)])
        ELSE None]

Substituent(direction, on_body, structure, name) ==
    [direction |-> direction, on_body |-> on_body, structure |-> structure,
     substituent_name |-> name]

\* the loop "for (index, bond) in neighbors.into_iter().enumerate()"
RECURSIVE WireNeighbors(_, _, _, _)
WireNeighbors(bonds, entry_index, neighbors, at) ==
    \* (Len(bonds) is asked first so that bonds is evaluated at every iteration)
    IF Len(bonds) >= 0 /\ at >= Len(neighbors) THEN bonds
    ELSE WireNeighbors(SetBond(bonds, entry_index, at, neighbors[at + 1]),
                       entry_index, neighbors, at + 1)

\* the groups kept under the names they had
RenameGroupsKeep(groups, name) == IF IsSome(groups) THEN Unwrap(groups) ELSE {}

\* the groups renamed [substituent_name, current_name].join("_")
RenameGroups(groups, name) ==
    {<<name \o "_" \o g[1], g[2]>> : g \in (IF IsSome(groups) THEN Unwrap(groups) ELSE {})}

\* Substituent::generate_layer, after the four atoms were found
GenerateLayerFound(s, target, entry, target_entry, target_exit, substituent_direction, substituent_on_body) ==
    LET offset == Len(target.atoms)
        Wired(shifted, placed, entry_index, neighbors) ==
            IF ~IsSome(neighbors)
            THEN Err(Panic("Neighbors should be able to get here."))
            ELSE Ok([shifted EXCEPT
                        !.atoms = placed.val,
                        !.bonds = WireNeighbors(@, Unwrap(entry_index),
                                                Unwrap(neighbors), 0),
                        !.groups = Some(RenameGroups(shifted.groups,
                                                     s.substituent_name)),
                        !.ids = Some({}),
                        !.title = target.title \o "_" \o s.substituent_name])
        Placed(shifted, placed, entry_index, on_body_index) ==
            IF ~placed.ok THEN Err(placed.err)
            ELSE IF ~IsSome(on_body_index)
            THEN Err(Panic("Index should be able to get here."))
            ELSE Wired(shifted, placed, entry_index,
                       GetNeighbors(shifted.bonds, Unwrap(on_body_index) + offset))
        Shifted(shifted, replace_atom, entry_index) ==
            Placed(shifted,
                   AtomListSetAtoms(shifted.atoms, Unwrap(entry_index),
                                    <<replace_atom>>),
                   entry_index, SelToIndex(s.on_body, shifted))
        Moved(moved) ==
            Shifted(MolOffset(SelSetAtom(s.on_body,
                                         SelSetAtom(s.direction, moved, None), None),
                              offset),
                    SelGetAtom(s.on_body, moved), SelToIndex(entry, target))
    IN  Moved([s.structure EXCEPT
                 !.atoms = AttachAtoms(@,
                     VSub(target_exit.position, target_entry.position),
                     VSub(substituent_direction.position,
                          substituent_on_body.position),
                     substituent_direction.position, target_exit.position)])

\* a generate_layer that looks for the exit atom before the entry atom
GenerateLayerExitFirst(s, target, entry, exit) ==
    IF ~IsSome(SelGetAtom(exit, target))
    THEN Err(Error("ExitAtomNotFoundInTarget", 0, ""))
    ELSE IF ~IsSome(SelGetAtom(entry, target))
    THEN Err(Error("EntryAtomNotFoundInTarget", 0, ""))
    ELSE IF ~IsSome(SelGetAtom(s.direction, s.structure))
    THEN Err(Error("DirectionAtomNotFoundInSubstituent", 0, ""))
    ELSE IF ~IsSome(SelGetAtom(s.on_body, s.structure))
    THEN Err(Error("OnBodyAtomNotFoundInSusbstituent", 0, ""))
    ELSE GenerateLayerFound(s, target, entry,
                            Unwrap(SelGetAtom(entry, target)),
                            Unwrap(SelGetAtom(exit, target)),
                            Unwrap(SelGetAtom(s.direction, s.structure)),
                            Unwrap(SelGetAtom(s.on_body, s.structure)))

\* Substituent::generate_layer
GenerateLayer(s, target, entry, exit) ==
    IF ~IsSome(SelGetAtom(entry, target))
    THEN Err(Error("EntryAtomNotFoundInTarget", 0, ""))
    ELSE IF ~IsSome(SelGetAtom(exit, target))
    THEN Err(Error("ExitAtomNotFoundInTarget", 0, ""))
    ELSE IF ~IsSome(SelGetAtom(s.direction, s.structure))
    THEN Err(Error("DirectionAtomNotFoundInSubstituent", 0, ""))
    ELSE IF ~IsSome(SelGetAtom(s.on_body, s.structure))
    THEN Err(Error("OnBodyAtomNotFoundInSusbstituent", 0, ""))
    ELSE GenerateLayerFound(s, target, entry,
                            Unwrap(SelGetAtom(entry, target)),
                            Unwrap(SelGetAtom(exit, target)),
                            Unwrap(SelGetAtom(s.direction, s.structure)),
                            Unwrap(SelGetAtom(s.on_body, s.structure)))

-----------------------------------------------------------------------------
(* Stack materialization and its cache: workflow/runner.rs *)

\* Vec<String>::join
RECURSIVE JoinStrings(_, _)
JoinStrings(strs, sep) ==
    IF Len(strs) = 0 THEN ""
    ELSE IF Len(strs) = 1 THEN strs[1]
    ELSE strs[1] \o sep \o JoinStrings(Tail(strs), sep)

\* the key joined without a separator
StackKeyNoSeparator(stack_path) ==
    JoinStrings([i \in 1..Len(stack_path) |-> ToString(stack_path[i])], "")

\* the key made of the last layer id alone
StackKeyLastOnly(stack_path) ==
    IF Len(stack_path) = 0 THEN "" ELSE ToString(stack_path[Len(stack_path)])

\* convert: stack_path.iter().map(|item| item.to_string()).collect().join("/")
StackKey(stack_path) ==
    JoinStrings([i \in 1..Len(stack_path) |-> ToString(stack_path[i])], "/")

\* The cache is a function from keys to the Results stored under them.
EmptyCache == [k \in {} |-> Ok(MolDefault)]
CacheSet(c, key, value) == [k \in DOMAIN c \cup {key} |-> IF k = key THEN value ELSE c[k]]

\* .map_err(|err| LayerStorageError::FilterError(err))
MapFilterError(out) == IF out.ok THEN out ELSE Err(FilterError(out.err))

\* let lower_result = cached_read_stack(base, layer_storage, heads)?;
\* layer.filter(lower_result).map_err(..): lower is what the inner call
\* returned, its Result and the cache as it left it
FilterLower(layer, lower) ==
    IF ~lower.res.ok THEN lower
    ELSE [res |-> MapFilterError(LayerFilter(layer, lower.res.val)),
          cache |-> lower.cache]

\* #[cached]: the Result of the body is stored under the key, whatever it is
CacheResult(key, body) ==
    [res |-> body.res, cache |-> CacheSet(body.cache, key, body.res)]

\* #[cached] fn cached_read_stack: the stored Result when the key is cached,
\* else the body's Result, stored under the key.  Returns the Result and the
\* cache as the call leaves it.
RECURSIVE CachedReadStack(_, _, _, _)
RECURSIVE ReadStackBody(_, _, _, _)
ReadStackBody(c, base, layer_storage, stack_path) ==
    IF Len(stack_path) = 0 THEN [res |-> Ok(base), cache |-> c]
    ELSE IF ~IsSome(ReadLayer(layer_storage, stack_path[Len(stack_path)]))
    THEN [res |-> Err(NoSuchLayer(stack_path[Len(stack_path)])), cache |-> c]
    ELSE FilterLower(Unwrap(ReadLayer(layer_storage, stack_path[Len(stack_path)])),
                     CachedReadStack(c, base, layer_storage,
                                     SubSeq(stack_path, 1, Len(stack_path) - 1)))

CachedReadStack(c, base, layer_storage, stack_path) ==
    IF StackKey(stack_path) \in DOMAIN c
    THEN [res |-> c[StackKey(stack_path)], cache |-> c]
    ELSE CacheResult(StackKey(stack_path),
                     ReadStackBody(c, base, layer_storage, stack_path))

\* .collect::<Result<Vec<_>, _>>() of the first structure and the others
CollectRead(first, rest) ==
    IF ~first.res.ok THEN first
    ELSE IF ~rest.res.ok THEN rest
    ELSE [res |-> Ok(<<first.res.val>> \o rest.res.val), cache |-> rest.cache]

\* .map(|stack_path| cached_read_stack(..)).collect::<Result<Vec<_>, _>>():
\* the structures in window order, or the first error
RECURSIVE ReadWindow(_, _, _, _)
RECURSIVE ReadRest(_, _, _, _)
ReadRest(first, base, layer_storage, window) ==
    CollectRead(first, ReadWindow(first.cache, base, layer_storage, window))

ReadWindow(c, base, layer_storage, window) ==
    IF Len(window) = 0 THEN [res |-> Ok(<< >>), cache |-> c]
    ELSE ReadRest(CachedReadStack(c, base, layer_storage, Head(window)),
                  base, layer_storage, Tail(window))

-----------------------------------------------------------------------------
(* Runners: workflow/runner.rs *)

\* RunnerOutput.  A BTreeMap<String, Vec<Vec<usize>>> is the sequence of its
\* entries [name, stacks] in key order, one entry per key.
SerialOut(stacks) == [kind |-> "Serial", serial |-> stacks, named |-> << >>]
NamedOut(groups) == [kind |-> "Named", serial |-> << >>, named |-> groups]
NoneOut == [kind |-> "None", serial |-> << >>, named |-> << >>]

\* The order of String keys (bytewise), over the names the model uses.
NameOrder == <<"Br", "Cl", "Me">>
NameRank(name) == CHOOSE i \in 1..Len(NameOrder) : NameOrder[i] = name
NameLess(x, y) == NameRank(x) < NameRank(y)

\* an insert that keeps the order of insertion and every entry
BTreeInsertAtEnd(groups, name, stacks) ==
    groups \o <<[name |-> name, stacks |-> stacks]>>

\* BTreeMap::insert
BTreeInsert(groups, name, stacks) ==
    SelectSeq(groups, LAMBDA g : NameLess(g.name, name))
    \o <<[name |-> name, stacks |-> stacks]>>
    \o SelectSeq(groups, LAMBDA g : NameLess(name, g.name))

\* Runner.  files: the substituents parsed from the files file_pattern
\* matches, in the order glob yields them; output: what the command of a
\* Function runner leaves in output.json (None when it leaves nothing
\* readable).
RunAddLayers(layers) ==
    [run |-> "AddLayers", layers |-> layers, entry |-> SelIndex(0), exit |-> SelIndex(0),
     files |-> << >>, output |-> None, prefix |-> "", suffix |-> "",
     path_prefix |-> "", extension |-> ""]
RunSubstituent(entry, exit, files) ==
    [run |-> "Substituent", layers |-> << >>, entry |-> entry, exit |-> exit,
     files |-> files, output |-> None, prefix |-> "", suffix |-> "",
     path_prefix |-> "", extension |-> ""]
RunFunction(output) ==
    [run |-> "Function", layers |-> << >>, entry |-> SelIndex(0), exit |-> SelIndex(0),
     files |-> << >>, output |-> output, prefix |-> "", suffix |-> "",
     path_prefix |-> "", extension |-> ""]
RunOutputXYZ(prefix, suffix, path_prefix, extension) ==
    [run |-> "OutputXYZ", layers |-> << >>, entry |-> SelIndex(0), exit |-> SelIndex(0),
     files |-> << >>, output |-> None, prefix |-> prefix, suffix |-> suffix,
     path_prefix |-> path_prefix, extension |-> extension]

\* What Runner::execute leaves behind: its Result, the layer storage, the
\* stack cache and the output files.
Ran(res, layer_storage, c, files) ==
    [res |-> res, layers |-> layer_storage, cache |-> c, files |-> files]

\* AddLayers putting the new ids in front of every stack
ExecuteAddLayersInFront(run, current_window, layer_storage, c, files) ==
    LET layer_ids == CreatedIds(layer_storage, run.layers)
    IN  Ran(Ok(SerialOut([i \in 1..Len(current_window) |->
                             layer_ids \o current_window[i]])),
            CreateLayers(layer_storage, run.layers), c, files)

\* Self::AddLayers
ExecuteAddLayers(run, current_window, layer_storage, c, files) ==
    LET layer_ids == CreatedIds(layer_storage, run.layers)
    IN  Ran(Ok(SerialOut([i \in 1..Len(current_window) |->
                             current_window[i] \o layer_ids])),
            CreateLayers(layer_storage, run.layers), c, files)

\* Self::Function, after the window is read.  command_ok: the exit status
\* the command ends with.
FunctionOver(run, read, layer_storage, files, command_ok) ==
    Ran(IF ~read.res.ok THEN read.res
        ELSE IF ~command_ok THEN Err(Error("CommandExitStatus", 0, ""))
        ELSE IF ~IsSome(run.output) THEN Err(Error("FileReadError", 0, "output.json"))
        ELSE Ok(Unwrap(run.output)),
        layer_storage, read.cache, files)

\* Self::Function
ExecuteFunction(run, base, current_window, layer_storage, c, files, command_ok) ==
    FunctionOver(run, ReadWindow(c, base, layer_storage, current_window),
                 layer_storage, files, command_ok)

\* .map(|base| substituent.generate_layer(base, entry, target))
\* .collect::<Result<Vec<_>, SubstituentError>>()
RECURSIVE GenerateLayers(_, _, _, _)
GenerateLayers(s, structures, entry, exit) ==
    IF Len(structures) = 0 THEN Ok(<< >>)
    ELSE LET Collect(first, rest) ==
                 IF ~first.ok THEN first
                 ELSE IF ~rest.ok THEN rest
                 ELSE Ok(<<Fill(first.val)>> \o rest.val)
         IN  Collect(GenerateLayer(s, Head(structures), entry, exit),
                     GenerateLayers(s, Tail(structures), entry, exit))

\* the loop "for substituent in substituents" of Self::Substituent
RECURSIVE SubstituentLoop(_, _, _, _, _, _, _)
SubstituentLoop(substituents, structures, current_window, entry, exit, layer_storage, result) ==
    IF Len(substituents) = 0
    THEN [res |-> Ok(NamedOut(result)), layers |-> layer_storage]
    ELSE LET NewStacks(layer_ids) ==
                 [i \in 1..Len(layer_ids) |-> Append(current_window[i], layer_ids[i])]
             Body(substituent, new_layers) ==
                 IF ~new_layers.ok
                 THEN [res |-> new_layers, layers |-> layer_storage]
                 ELSE SubstituentLoop(Tail(substituents), structures, current_window,
                          entry, exit, CreateLayers(layer_storage, new_layers.val),
                          BTreeInsert(result, substituent.substituent_name,
                              NewStacks(CreatedIds(layer_storage, new_layers.val))))
         IN  Body(Head(substituents),
                  GenerateLayers(Head(substituents), structures, entry, exit))

\* Self::Substituent
ExecuteSubstituent(run, base, current_window, layer_storage, c, files) ==
    LET Looped(read, loop) == Ran(loop.res, loop.layers, read.cache, files)
        Over(read) ==
            IF ~read.res.ok THEN Ran(read.res, layer_storage, read.cache, files)
            ELSE Looped(read, SubstituentLoop(run.files, read.res.val, current_window,
                                  run.entry, run.exit, layer_storage, << >>))
    IN  Over(ReadWindow(c, base, layer_storage, current_window))

\* chemistry::element_num_to_symbol, for the elements the model uses
ElementSymbol(e) ==
    IF e = 1 THEN Some("H") ELSE IF e = 6 THEN Some("C")
    ELSE IF e = 8 THEN Some("O") ELSE None

\* the atom lines: format!("{} {} {} {}", element, x, y, z) per exported atom
RECURSIVE XyzLines(_)
XyzLines(list) ==
    IF Len(list) = 0 THEN << >>
    ELSE (IF IsSome(Head(list)) /\ IsSome(ElementSymbol(Unwrap(Head(list)).element))
          THEN <<JoinStrings(<<Unwrap(ElementSymbol(Unwrap(Head(list)).element)),
                               ToString(Unwrap(Head(list)).position[1]),
                               ToString(Unwrap(Head(list)).position[2]),
                               ToString(Unwrap(Head(list)).position[3])>>, " ")>>
          ELSE << >>)
         \o XyzLines(Tail(list))

\* the conversion without the test of the element: every present atom counts
AtomListMapPresent(list) ==
    LET present == SelectSeq([i \in 1..Len(list) |-> i - 1],
                             LAMBDA i : IsSome(list[i + 1]))
    IN  {<<present[k], k - 1>> : k \in 1..Len(present)}

\* Into<BTreeMap<usize, usize>> for SparseAtomList: sparse -> continuous
AtomListMap(list) ==
    LET kept == ValidIndexesFrom(list, 0)
    IN  {<<kept[k], k - 1>> : k \in 1..Len(kept)}

\* .skip_while(|line| line == "")
RECURSIVE SkipWhileEmpty(_)
SkipWhileEmpty(lines) ==
    IF Len(lines) > 0 /\ Head(lines) = "" THEN SkipWhileEmpty(Tail(lines)) ELSE lines

\* the content written to the structure file
XyzContent(prefix, suffix, title, xyz) ==
    JoinStrings(SkipWhileEmpty(<<prefix, ToString(Len(xyz)), title>> \o xyz \o <<suffix>>),
                "\n")

\* path.join(&title) with set_extension(extension)
XyzPath(path_prefix, title, extension) == path_prefix \o "/" \o title \o "." \o extension

FileOf(text, map) == [text |-> text, map |-> map]

\* the loop writing with File::create: a file that exists is replaced
RECURSIVE WriteOutputsOverwrite(_, _, _)
WriteOutputsOverwrite(run, outputs, files) ==
    IF Len(outputs) = 0 THEN [res |-> Ok(NoneOut), files |-> files]
    ELSE LET Put(fs, p, file) == [q \in DOMAIN fs \cup {p} |-> IF q = p THEN file ELSE fs[q]]
             Write(data) ==
                 WriteOutputsOverwrite(run, Tail(outputs),
                     Put(Put(files, XyzPath(run.path_prefix, data.title, run.extension),
                             FileOf(XyzContent(run.prefix, run.suffix, data.title,
                                               XyzLines(data.atoms)), {})),
                         XyzPath(run.path_prefix, data.title, "atommap.json"),
                         FileOf("", AtomListMap(data.atoms))))
         IN  Write(Head(outputs))

\* the loop "for (title, atom_map, xyz) in outputs" of Runner::OutputXYZ
RECURSIVE WriteOutputs(_, _, _)
WriteOutputs(run, outputs, files) ==
    IF Len(outputs) = 0 THEN [res |-> Ok(NoneOut), files |-> files]
    ELSE LET Put(fs, p, file) == [q \in DOMAIN fs \cup {p} |-> IF q = p THEN file ELSE fs[q]]
             Mapped(data, map_path, written) ==
                 IF map_path \in DOMAIN written
                 THEN [res |-> Err(Error("FileWriteError", 0, map_path)), files |-> written]
                 ELSE WriteOutputs(run, Tail(outputs),
                          Put(written, map_path, FileOf("", AtomListMap(data.atoms))))
             Written(data, path, content) ==
                 IF path \in DOMAIN files
                 THEN [res |-> Err(Error("FileWriteError", 0, path)), files |-> files]
                 ELSE Mapped(data, XyzPath(run.path_prefix, data.title, "atommap.json"),
                             Put(files, path, FileOf(content, {})))
             Write(data) ==
                 Written(data, XyzPath(run.path_prefix, data.title, run.extension),
                         XyzContent(run.prefix, run.suffix, data.title,
                                    XyzLines(data.atoms)))
         IN  Write(Head(outputs))

\* Runner::OutputXYZ
ExecuteOutputXYZ(run, base, current_window, layer_storage, c, files) ==
    LET Wrote(read, wrote) == Ran(wrote.res, layer_storage, read.cache, wrote.files)
        Over(read) ==
            IF ~read.res.ok THEN Ran(read.res, layer_storage, read.cache, files)
            ELSE Wrote(read, WriteOutputs(run, read.res.val, files))
    IN  Over(ReadWindow(c, base, layer_storage, current_window))

\* Runner::execute
RunnerExecute(run, base, current_window, layer_storage, c, files, command_ok) ==
    CASE run.run = "AddLayers" ->
            ExecuteAddLayers(run, current_window, layer_storage, c, files)
      [] run.run = "Function" ->
            ExecuteFunction(run, base, current_window, layer_storage, c, files,
                            command_ok)
      [] run.run = "Substituent" ->
            ExecuteSubstituent(run, base, current_window, layer_storage, c, files)
      [] run.run = "OutputXYZ" ->
            ExecuteOutputXYZ(run, base, current_window, layer_storage, c, files)

-----------------------------------------------------------------------------
(* WorkflowData: workflow/workflow_data.rs.  A Range<usize> is the record  *)
(* of its start and end; windows maps names to ranges.                     *)

Range(start, end) == [start |-> start, end |-> end]
RangeLen(r) == IF r.end > r.start THEN r.end - r.start ELSE 0

\* a WorkflowData that starts without the stack of the base
WorkflowDataNewNoStack(base) ==
    [base |-> base, layers |-> << >>, stacks |-> << >>,
     windows |-> [n \in {"base"} |-> Range(0, 0)], current_window |-> Range(0, 0)]

\* WorkflowData::new(base), over WorkflowData::default
WorkflowDataNew(base) ==
    [base |-> base, layers |-> << >>, stacks |-> << << >> >>,
     windows |-> [n \in {"base"} |-> Range(0, 1)], current_window |-> Range(0, 1)]

\* WorkflowData::current_window_stacks
CurrentWindowStacks(wd) ==
    IF \E i \in wd.current_window.start..(wd.current_window.end - 1) :
           i >= Len(wd.stacks)
    THEN Err(Error("StackIdOutOfRange",
                   CHOOSE i \in wd.current_window.start..(wd.current_window.end - 1) :
                       i >= Len(wd.stacks)
                       /\ \A j \in wd.current_window.start..(i - 1) : j < Len(wd.stacks),
                   ""))
    ELSE Ok([k \in 1..RangeLen(wd.current_window) |->
               wd.stacks[wd.current_window.start + k]])

\* BTreeMap::insert on the named windows
WindowInsert(windows, name, range) ==
    [n \in DOMAIN windows \cup {name} |-> IF n = name THEN range ELSE windows[n]]

-----------------------------------------------------------------------------
(* Steps: workflow/step.rs *)

Step(from, name, run) == [from |-> from, name |-> name, run |-> run]

\* What Step::execute leaves behind: its Result, the WorkflowData (changed in
\* place, also when the step fails), the stack cache and the output files.
Stepped(res, wd, c, files) == [res |-> res, wd |-> wd, cache |-> c, files |-> files]

\* Appending generated stacks to the stacks array: the range they occupy
AppendedRange(wd, stacks) == Range(Len(wd.stacks), Len(wd.stacks) + Len(stacks))
AppendStacks(wd, stacks) == [wd EXCEPT !.stacks = @ \o stacks]

\* RunnerOutput::SingleWindow(generated_stacks): they become the cursor window
InstallSerial(wd, generated_stacks) ==
    [AppendStacks(wd, generated_stacks) EXCEPT
        !.current_window = AppendedRange(wd, generated_stacks)]

\* RunnerOutput::MultiWindow(named_stacks): the loop over the groups; the
\* cursor window, emptied first, is extended by every group, and every group
\* is inserted as the window [prefix, suffix].join("_")
RECURSIVE InstallGroups(_, _, _)
InstallGroups(wd, prefix, named_stacks) ==
    IF Len(named_stacks) = 0 THEN wd
    ELSE LET Install(group, range) ==
                 [AppendStacks(wd, group.stacks) EXCEPT
                     !.current_window = Range(@.start, range.end),
                     !.windows = WindowInsert(@, prefix \o "_" \o group.name, range)]
         IN  InstallGroups(Install(Head(named_stacks),
                                   AppendedRange(wd, Head(named_stacks).stacks)),
                           prefix, Tail(named_stacks))

InstallNamed(wd, prefix, named_stacks) ==
    InstallGroups([wd EXCEPT !.current_window = Range(Len(wd.stacks), Len(wd.stacks))],
                  prefix, named_stacks)

\* the output installed with the index of the step as the prefix of the
\* group windows, whatever the name of the step
InstallOutputIndexPrefix(wd, step, idx, output) ==
    CASE output.kind = "Serial" -> InstallSerial(wd, output.serial)
      [] output.kind = "Named" -> InstallNamed(wd, ToString(idx), output.named)
      [] output.kind = "None" -> wd

\* the output installed with an output of kind None emptying the cursor
\* window
InstallOutputNoneEmpties(wd, step, idx, output) ==
    CASE output.kind = "Serial" -> InstallSerial(wd, output.serial)
      [] output.kind = "Named" ->
            InstallNamed(wd, IF IsSome(step.name) THEN Unwrap(step.name)
                             ELSE ToString(idx),
                         output.named)
      [] output.kind = "None" ->
            [wd EXCEPT !.current_window = Range(Len(wd.stacks), Len(wd.stacks))]

\* match generated_stacks { SingleWindow .. MultiWindow .. None }
InstallOutput(wd, step, idx, output) ==
    CASE output.kind = "Serial" -> InstallSerial(wd, output.serial)
      [] output.kind = "Named" ->
            InstallNamed(wd, IF IsSome(step.name) THEN Unwrap(step.name)
                             ELSE ToString(idx),
                         output.named)
      [] output.kind = "None" -> wd

\* if let Some(name) = self.name { windows.insert(name, current_window) }
BindName(wd, step) ==
    IF IsSome(step.name)
    THEN [wd EXCEPT !.windows = WindowInsert(@, Unwrap(step.name), wd.current_window)]
    ELSE wd

\* a step that stays on the cursor window whatever its `from`
ResolveFromCursor(wd, step) == Ok(wd)

\* a step that falls back to the window of the base when `from` is not bound
ResolveFromOrBase(wd, step) ==
    IF ~IsSome(step.from) THEN Ok(wd)
    ELSE IF Unwrap(step.from) \in DOMAIN wd.windows
    THEN Ok([wd EXCEPT !.current_window = wd.windows[Unwrap(step.from)]])
    ELSE Ok([wd EXCEPT !.current_window = wd.windows["base"]])

\* if let Some(from) = self.from { current_window = windows.get(&from)? }
ResolveFrom(wd, step) ==
    IF ~IsSome(step.from) THEN Ok(wd)
    ELSE IF Unwrap(step.from) \in DOMAIN wd.windows
    THEN Ok([wd EXCEPT !.current_window = wd.windows[Unwrap(step.from)]])
    ELSE Err(Error("WindowNotFound", 0, Unwrap(step.from)))

\* Step::execute
StepExecute(step, idx, wd, c, files, command_ok) ==
    LET After(ran, after) ==
            IF ~ran.res.ok THEN Stepped(ran.res, after, ran.cache, ran.files)
            ELSE Stepped(Ok(TRUE),
                         BindName(InstallOutput(after, step, idx, ran.res.val), step),
                         ran.cache, ran.files)
        Ran_(from, ran) == After(ran, [from.val EXCEPT !.layers = ran.layers])
        Over(from, stacks) ==
            IF ~stacks.ok THEN Stepped(stacks, from.val, c, files)
            ELSE Ran_(from, RunnerExecute(step.run, wd.base, stacks.val, wd.layers,
                                          c, files, command_ok))
        From(from) ==
            IF ~from.ok THEN Stepped(from, wd, c, files)
            ELSE Over(from, CurrentWindowStacks(from.val))
    IN  From(ResolveFrom(wd, step))

-----------------------------------------------------------------------------
(* The workflow driver: workflow/src/main.rs *)

WorkflowCheckPoint(skip, wd) == [skip |-> skip, workflow_data |-> wd]

\* The content of lme_workflow.chk.data: the serialized WorkflowData, whole
\* or cut short (complete = FALSE: it does not deserialize).
DataContent(wd, complete) == [workflow_data |-> wd, complete |-> complete]

\* skip.parse::<usize>() of the text of lme_workflow.chk.skip
ParseUsize(text) ==
    IF \E n \in 0..99 : ToString(n) = text
    THEN Some(CHOOSE n \in 0..99 : ToString(n) = text)
    ELSE None

\* load_checkpoint starting fresh whenever one of the two files is missing
LoadCheckpointBothOrFresh(skip_file, data_file) ==
    IF ~IsSome(skip_file) \/ ~IsSome(data_file) THEN Ok(None)
    ELSE IF ~IsSome(ParseUsize(Unwrap(skip_file)))
    THEN Err(Panic("Unable to parse skip steps in lme_workflow.chk.skip"))
    ELSE IF ~Unwrap(data_file).complete
    THEN Err(Panic("Unable to deserialize lme_workflow.chk.data, it might be broken"))
    ELSE Ok(Some(WorkflowCheckPoint(Unwrap(ParseUsize(Unwrap(skip_file))),
                                    Unwrap(data_file).workflow_data)))

\* load_checkpoint: Ok(None) without the skip file, Ok(Some(checkpoint)) with
\* both files readable, and a panic (every unwrap) otherwise
LoadCheckpoint(skip_file, data_file) ==
    IF ~IsSome(skip_file) THEN Ok(None)
    ELSE IF ~IsSome(ParseUsize(Unwrap(skip_file)))
    THEN Err(Panic("Unable to parse skip steps in lme_workflow.chk.skip"))
    ELSE IF ~IsSome(data_file)
    THEN Err(Panic("lme_workflow.chk.skip existed but lme_workflow.chk.data not found"))
    ELSE IF ~Unwrap(data_file).complete
    THEN Err(Panic("Unable to deserialize lme_workflow.chk.data, it might be broken"))
    ELSE Ok(Some(WorkflowCheckPoint(Unwrap(ParseUsize(Unwrap(skip_file))),
                                    Unwrap(data_file).workflow_data)))

\* the loaded data taken, the loaded skip dropped
StartFromBeginning(loaded, base) ==
    IF IsSome(loaded) THEN WorkflowCheckPoint(0, Unwrap(loaded).workflow_data)
    ELSE WorkflowCheckPoint(0, WorkflowDataNew(base))

\* let (skip, mut workflow_data) = if let Some(checkpoint) = checkpoint { .. }
StartFrom(loaded, base) ==
    IF IsSome(loaded) THEN Unwrap(loaded)
    ELSE WorkflowCheckPoint(0, WorkflowDataNew(base))

\* The memory of a process that is not running
NoData == WorkflowDataNew(MolDefault)
NoCheckpoint == WorkflowCheckPoint(0, NoData)

At(at, then) == [at |-> at, then |-> then]
Running == {"start", "loop", "dump_skip_create", "dump_skip_write",
            "dump_data_create", "dump_data_write"}
\* finished: main returned; failed: panic!("{:#?}", err) on a step error;
\* aborted: any other panic; killed: the process was killed
Ended == {"finished", "failed", "aborted", "killed"}

-----------------------------------------------------------------------------
(* The inputs the driver is run on *)

MaxSteps == 2       \* the longest workflow of a single run
MaxDriverSteps == 2 \* the longest workflow of a driver that is started again
MaxRuns == 2        \* how often the driver is started
MaxKills == 1       \* how often a running driver is killed

Carbon(p) == Some(Atom3D(6, p))
Hydrogen(p) == Some(Atom3D(1, p))
Oxygen(p) == Some(Atom3D(8, p))

\* the base: C-H along x, titled "m"
BaseMolecule ==
    Molecule(<<Carbon(<<0, 0, 0>>), Hydrogen(<<1, 0, 0>>)>>,
             SetBond(BondNew(2), 0, 1, Some(1)),
             Some({<<"c", 0>>}), Some({}), "m")

\* substituent files: a methyl-like fragment along x, a fragment along z,
\* one whose direction atom is missing, one repeating the name "Me"
SubMe ==
    Substituent(SelIndex(1), SelIndex(0),
        Molecule(<<Carbon(<<0, 0, 0>>), Hydrogen(<<1, 0, 0>>), Hydrogen(<<0, 1, 0>>)>>,
                 SetBond(SetBond(BondNew(3), 0, 1, Some(1)), 0, 2, Some(1)),
                 Some({}), Some({<<"body", 2>>}), "me"),
        "Me")
SubBr ==
    Substituent(SelIndex(1), SelIndex(0),
        Molecule(<<Oxygen(<<0, 0, 0>>), Hydrogen(<<0, 0, 1>>)>>,
                 SetBond(BondNew(2), 0, 1, Some(1)),
                 Some({}), Some({}), "br"),
        "Br")
SubCl ==
    Substituent(SelIndex(4), SelIndex(0),
        Molecule(<<Oxygen(<<0, 0, 0>>), Hydrogen(<<0, 2, 0>>)>>,
                 SetBond(BondNew(2), 0, 1, Some(2)),
                 Some({}), Some({}), "cl"),
        "Cl")
SubMe2 ==
    Substituent(SelIndex(1), SelIndex(0),
        Molecule(<<Oxygen(<<0, 0, 0>>), Hydrogen(<<2, 0, 0>>)>>,
                 SetBond(BondNew(2), 0, 1, Some(1)),
                 Some({}), Some({}), "me2"),
        "Me")

StepMenu ==
    { Step(None, Some("a"),
           RunAddLayers(<<SetAtom(2, Oxygen(<<0, 0, 1>>)), GroupMap("g", 2)>>)),
      Step(Some("base"), Some("a"), RunAddLayers(<<GroupMap("g", 2)>>)),
      Step(None, Some("s"),
           RunSubstituent(SelIndex(0), SelIndex(1), <<SubMe, SubBr>>)),
      Step(Some("base"), None,
           RunSubstituent(SelIndex(0), SelIndex(1), <<SubMe, SubCl>>)),
      Step(None, None,
           RunSubstituent(SelIndex(0), SelIndex(1), <<SubMe, SubMe2>>)),
      Step(None, Some("a"),
           RunFunction(Some(SerialOut(<< <<10>>, <<1, 0>>, <<0>> >>)))),
      Step(None, Some("f"),
           RunFunction(Some(NamedOut(<<[name |-> "Br", stacks |-> << << >> >>],
                                       [name |-> "Cl", stacks |-> << <<0>>, <<1>> >>]>>)))),
      Step(Some("a"), Some("x"), RunOutputXYZ("", "", "out", "xyz")) }

\* the steps of the workflows that are interrupted and started again
DriverMenu ==
    {s \in StepMenu :
        \/ s.run.run = "AddLayers" /\ s.from = None
        \/ s.run.run = "Substituent" /\ s.from = Some("base")
        \/ s.run.run = "Function" /\ s.name = Some("f")
        \/ s.run.run = "OutputXYZ"}

RECURSIVE SeqsUpTo(_, _)
SeqsUpTo(S, n) ==
    IF n = 0 THEN {<< >>}
    ELSE LET shorter == SeqsUpTo(S, n - 1)
         IN  shorter \cup {Append(s, x) : s \in {t \in shorter : Len(t) = n - 1}, x \in S}

WorkflowInput(base, steps, no_checkpoint) ==
    [base |-> base, steps |-> steps, no_checkpoint |-> no_checkpoint]

-----------------------------------------------------------------------------
(* The driver as a process that is started, runs, ends or is killed, and   *)
(* is started again on the files it left.                                  *)

NoAtomOp == [op |-> "none", arg |-> 0, out |-> None]

\* What is remembered of the runs, for the properties: run counts the starts
\* of the driver, kills the kills; removed is the run after which a
\* checkpoint file was removed (0: none was); found, the checkpoint files the
\* current run found when it started; startSkip, the step index its loop
\* started at; executed, the step indexes it executed; snap, the WorkflowData
\* at the end of its last successful step; last, the step it ran last; prev,
\* how the run before it ended.
HistInit ==
    [run |-> 1, kills |-> 0, removed |-> 0, found |-> None, startSkip |-> None,
     executed |-> << >>, snap |-> NoData, last |-> None, prev |-> None]

\* The driver is started in a directory without checkpoint or output files
InitOn(programs, flags) ==
    /\ atoms = << >>
    /\ matrix = << >>
    /\ molecule = MolDefault
    /\ atomOp = NoAtomOp
    /\ tempDir = None
    /\ input \in {WorkflowInput(BaseMolecule, steps, no_checkpoint) :
                     steps \in programs, no_checkpoint \in flags}
    /\ skipFile = None
    /\ dataFile = None
    /\ outFiles = [p \in {} |-> FileOf("", {})]
    /\ pc = At("start", "")
    /\ index = 0
    /\ workflow_data = NoData
    /\ checkpoint = NoCheckpoint
    /\ cache = EmptyCache
    /\ hist = HistInit

\* The two checkpoint files as a run finds them
CheckpointFiles(skip_file, data_file) == [skip |-> skip_file, data |-> data_file]

\* main, lines 25-35: load the checkpoint or start fresh
Start ==
    /\ pc.at = "start"
    /\ \E loaded \in {LoadCheckpoint(skipFile, dataFile)} :
           IF ~loaded.ok
           THEN /\ pc' = At("aborted", "start")
                /\ hist' = [hist EXCEPT !.found = Some(CheckpointFiles(skipFile, dataFile))]
                /\ UNCHANGED <<index, workflow_data, checkpoint>>
           ELSE \E from \in {StartFrom(loaded.val, input.base)} :
                /\ pc' = At("loop", "")
                /\ index' = from.skip
                /\ workflow_data' = from.workflow_data
                /\ checkpoint' = WorkflowCheckPoint(from.skip, from.workflow_data)
                /\ hist' = [hist EXCEPT !.found = Some(CheckpointFiles(skipFile, dataFile)),
                                        !.startSkip = Some(from.skip),
                                        !.snap = from.workflow_data]
    /\ UNCHANGED <<atomVars, input, diskVars, cache>>

\* What the loop body records of the step it ran
LastStep(idx, wd, c, files, command_ok, stepped) ==
    [idx |-> idx, wd |-> wd, cache |-> c, files |-> files,
     command_ok |-> command_ok, ok |-> stepped.res.ok, post |-> stepped.wd]

\* the checkpoint of a successful step holding the index of that step
CheckpointAfterSameIndex(old, idx, wd, no_checkpoint) ==
    IF ~no_checkpoint THEN WorkflowCheckPoint(idx, wd) ELSE old

\* The checkpoint the loop holds after a successful step
CheckpointAfter(old, idx, wd, no_checkpoint) ==
    IF ~no_checkpoint THEN WorkflowCheckPoint(idx + 1, wd) ELSE old

\* main, lines 37-60: one iteration of the loop over the steps
LoopStep ==
    /\ pc.at = "loop"
    /\ index < Len(input.steps)
    /\ \E command_ok \in (IF input.steps[index + 1].run.run = "Function"
                          THEN BOOLEAN ELSE {TRUE}) :
         \E stepped \in {StepExecute(input.steps[index + 1], index, workflow_data,
                                     cache, outFiles, command_ok)} :
         LET seen == [hist EXCEPT
                        !.executed = Append(@, index),
                        !.last = Some(LastStep(index, workflow_data, cache, outFiles,
                                               command_ok, stepped))]
         IN  /\ workflow_data' = stepped.wd
             /\ cache' = stepped.cache
             /\ outFiles' = stepped.files
             /\ IF stepped.res.ok
                THEN /\ checkpoint' = CheckpointAfter(checkpoint, index, stepped.wd,
                                                      input.no_checkpoint)
                     /\ index' = index + 1
                     /\ pc' = pc
                     /\ hist' = [seen EXCEPT !.snap = stepped.wd]
                ELSE /\ UNCHANGED <<checkpoint, index>>
                     /\ hist' = seen
                     /\ pc' = IF stepped.res.err.kind = "Panic" THEN At("aborted", "loop")
                              ELSE IF ~input.no_checkpoint
                              THEN At("dump_skip_create", "failed")
                              ELSE At("failed", "")
    /\ UNCHANGED <<atomVars, input, skipFile, dataFile>>

\* main, lines 62-67: the loop is over
LoopEnd ==
    /\ pc.at = "loop"
    /\ index >= Len(input.steps)
    /\ pc' = IF ~input.no_checkpoint THEN At("dump_skip_create", "finished")
             ELSE At("finished", "")
    /\ UNCHANGED <<atomVars, input, diskVars, index, workflow_data, checkpoint,
                   cache, hist>>

\* dump_checkpoint: File::create("lme_workflow.chk.skip") truncates the file
DumpSkipCreate ==
    /\ pc.at = "dump_skip_create"
    /\ skipFile' = Some("")
    /\ pc' = At("dump_skip_write", pc.then)
    /\ UNCHANGED <<atomVars, input, dataFile, outFiles, index, workflow_data,
                   checkpoint, cache, hist>>

\* dump_checkpoint: write_all(checkpoint.skip.to_string())
DumpSkipWrite ==
    /\ pc.at = "dump_skip_write"
    /\ skipFile' = Some(ToString(checkpoint.skip))
    /\ pc' = At("dump_data_create", pc.then)
    /\ UNCHANGED <<atomVars, input, dataFile, outFiles, index, workflow_data,
                   checkpoint, cache, hist>>

\* dump_checkpoint: File::create("lme_workflow.chk.data") truncates the file
DumpDataCreate ==
    /\ pc.at = "dump_data_create"
    /\ dataFile' = Some(DataContent(NoData, FALSE))
    /\ pc' = At("dump_data_write", pc.then)
    /\ UNCHANGED <<atomVars, input, skipFile, outFiles, index, workflow_data,
                   checkpoint, cache, hist>>

\* dump_checkpoint: serde_yaml::to_writer of checkpoint.workflow_data; then
\* main panics with the step's error or returns
DumpDataWrite ==
    /\ pc.at = "dump_data_write"
    /\ dataFile' = Some(DataContent(checkpoint.workflow_data, TRUE))
    /\ pc' = At(pc.then, "")
    /\ UNCHANGED <<atomVars, input, skipFile, outFiles, index, workflow_data,
                   checkpoint, cache, hist>>

\* The running process is killed: its memory is gone, the files stay
Kill ==
    /\ pc.at \in Running
    /\ hist.kills < MaxKills
    /\ pc' = At("killed", pc.at)
    /\ hist' = [hist EXCEPT !.kills = @ + 1]
    /\ UNCHANGED <<atomVars, input, diskVars, index, workflow_data, checkpoint, cache>>

\* The driver is started again in the same directory
Restart ==
    /\ pc.at \in Ended
    /\ hist.run < MaxRuns
    /\ pc' = At("start", "")
    /\ index' = 0
    /\ workflow_data' = NoData
    /\ checkpoint' = NoCheckpoint
    /\ cache' = EmptyCache
    /\ hist' = [hist EXCEPT
                  !.run = @ + 1, !.found = None, !.startSkip = None,
                  !.executed = << >>,
                  !.snap = NoData, !.last = None,
                  !.prev = Some([how |-> pc.at, at |-> pc.then, index |-> index,
                                 executed |-> hist.executed,
                                 workflow_data |-> workflow_data])]
    /\ UNCHANGED <<atomVars, input, diskVars>>

\* Between two runs somebody removes one of the checkpoint files
RemoveFile ==
    /\ pc.at \in Ended
    /\ hist.removed = 0
    /\ \/ IsSome(skipFile) /\ skipFile' = None /\ UNCHANGED dataFile
       \/ IsSome(dataFile) /\ dataFile' = None /\ UNCHANGED skipFile
    /\ hist' = [hist EXCEPT !.removed = hist.run]
    /\ UNCHANGED <<atomVars, input, outFiles, procVars>>

InitFlow == InitOn(SeqsUpTo(StepMenu, MaxSteps), {TRUE})
InitRun == InitOn(SeqsUpTo(DriverMenu, MaxDriverSteps), BOOLEAN)

\* One run of the driver over its steps, without checkpoint files
NextFlow ==
    \/ Start
    \/ LoopStep
    \/ LoopEnd

SpecFlow == InitFlow /\ [][NextFlow]_vars

\* The driver killed, ended and started again
NextRun ==
    \/ Start
    \/ LoopStep
    \/ LoopEnd
    \/ DumpSkipCreate
    \/ DumpSkipWrite
    \/ DumpDataCreate
    \/ DumpDataWrite
    \/ Kill
    \/ Restart
    \/ RemoveFile

SpecRun == InitRun /\ [][NextRun]_vars

-----------------------------------------------------------------------------
(* The sparse atom list on its own: lists of up to MaxAtoms cells, each a  *)
(* hole, an atom with a valid element or an atom with an invalid element,  *)
(* and the index conversions applied to them.                              *)

MaxAtoms == 3

AtomCells == {None, Carbon(<<0, 0, 0>>), Hydrogen(<<1, 0, 0>>),
              Some(Atom3D(0, <<0, 0, 0>>))}

AtomOp(op, arg, out) == [op |-> op, arg |-> arg, out |-> out]

InitAtoms ==
    /\ atoms \in SeqsUpTo(AtomCells, MaxAtoms)
    /\ matrix = << >>
    /\ molecule = MolDefault
    /\ atomOp = NoAtomOp
    /\ tempDir = None
    /\ input = WorkflowInput(MolDefault, << >>, FALSE)
    /\ skipFile = None
    /\ dataFile = None
    /\ outFiles = [p \in {} |-> FileOf("", {})]
    /\ pc = At("idle", "")
    /\ index = 0
    /\ workflow_data = NoData
    /\ checkpoint = NoCheckpoint
    /\ cache = EmptyCache
    /\ hist = HistInit

\* L.to_continuous_index(i), for an index in or just past the list
ToContinuous ==
    /\ \E i \in 0..Len(atoms) :
         atomOp' = AtomOp("to_continuous_index", i, ToContinuousIndex(atoms, i))
    /\ UNCHANGED <<atoms, matrix, molecule, tempDir, runVars>>

\* L.from_continuous_index(k)
FromContinuous ==
    /\ \E k \in 0..Len(atoms) :
         atomOp' = AtomOp("from_continuous_index", k, FromContinuousIndex(atoms, k))
    /\ UNCHANGED <<atoms, matrix, molecule, tempDir, runVars>>

\* L.from_continuous_index(L.to_continuous_index(i).unwrap())
RoundTrip ==
    /\ \E i \in 0..Len(atoms) :
         /\ IsSome(ToContinuousIndex(atoms, i))
         /\ atomOp' = AtomOp("round_trip", i,
                FromContinuousIndex(atoms, Unwrap(ToContinuousIndex(atoms, i))))
    /\ UNCHANGED <<atoms, matrix, molecule, tempDir, runVars>>

\* A call that changes the list: the list it was applied to, and how it
\* ended (a panic ends the process: the list is then left as it was)
AtomCall(op, arg, before, res) == [op |-> op, arg |-> arg, out |-> before, res |-> res]

\* L.set_atoms(offset, new), on a list as it was built
SetAtoms ==
    /\ atomOp = NoAtomOp
    /\ \E offset \in 0..MaxAtoms, new \in SeqsUpTo(AtomCells, MaxAtoms - 1) :
         /\ offset + Len(new) <= MaxAtoms
         /\ \E set \in {AtomListSetAtoms(atoms, offset, new)} :
              /\ atoms' = IF set.ok THEN set.val ELSE atoms
              /\ atomOp' = AtomCall("set_atoms", <<offset, new>>, atoms, set)
    /\ UNCHANGED <<matrix, molecule, tempDir, runVars>>

\* L.migrate(other), on a list as it was built
Migrate ==
    /\ atomOp = NoAtomOp
    /\ \E other \in SeqsUpTo(AtomCells, MaxAtoms - 1) :
         /\ atoms' = AtomListMigrate(atoms, other)
         /\ atomOp' = AtomCall("migrate", other, atoms, Ok(TRUE))
    /\ UNCHANGED <<matrix, molecule, tempDir, runVars>>

NextAtoms ==
    \/ ToContinuous
    \/ FromContinuous
    \/ RoundTrip
    \/ SetAtoms
    \/ Migrate

SpecAtoms == InitAtoms /\ [][NextAtoms]_vars

-----------------------------------------------------------------------------
(* Properties of the sparse atom list *)

\* C10: for every list L and every sparse index i at which L holds a present
\* atom with a valid element, from_continuous_index(to_continuous_index(i)
\* .unwrap()) returns Some(i).
C10_RoundTripIsIdentity ==
    atomOp.op = "round_trip" =>
        /\ PresentValid(ReadAtom(atoms, atomOp.arg))
        /\ atomOp.out = Some(atomOp.arg)

\* a round trip at an index whose continuous index differs from it: a hole or
\* an invalid atom lies below
C10_Witness ==
    /\ atomOp.op = "round_trip"
    /\ atomOp.arg = 2
    /\ ~PresentValid(ReadAtom(atoms, 0))
    /\ PresentValid(ReadAtom(atoms, 1))
    /\ atomOp.out = Some(2)

-----------------------------------------------------------------------------
(* Properties of stack materialization, over one run of the driver *)

\* The stack paths the properties look at: the stacks of the workflow and
\* every path of up to two of the ids 0, 1 and 10
ProbePaths ==
    SeqsUpTo({0, 1, 10}, 2) \cup {workflow_data.stacks[i] : i \in 1..Len(workflow_data.stacks)}

\* what cached_read_stack returns for a path in the current state
ReadNow(stack_path) ==
    CachedReadStack(cache, workflow_data.base, workflow_data.layers, stack_path).res

Heads(stack_path) == SubSeq(stack_path, 1, Len(stack_path) - 1)
Last(stack_path) == stack_path[Len(stack_path)]

\* The fold of a path over base and storage, without any cache
RECURSIVE Materialize(_, _, _)
Materialize(base, layer_storage, stack_path) ==
    IF Len(stack_path) = 0 THEN Ok(base)
    ELSE IF ~IsSome(ReadLayer(layer_storage, Last(stack_path)))
    THEN Err(NoSuchLayer(Last(stack_path)))
    ELSE LET lower == Materialize(base, layer_storage, Heads(stack_path))
             out == LayerFilter(Unwrap(ReadLayer(layer_storage, Last(stack_path))),
                                lower.val)
         IN  IF ~lower.ok THEN lower
             ELSE IF out.ok THEN out ELSE Err(FilterError(out.err))

\* C1: cached_read_stack([]) returns the base, and cached_read_stack(xs ++ [y])
\* returns layers[y].filter(cached_read_stack(xs)): NoSuchLayer(y) when y is
\* not in the storage, FilterError when the filter of layer y fails.
C1_MaterializeIsLeftFold ==
    \A p \in ProbePaths :
        IF Len(p) = 0 THEN ReadNow(p) = Ok(workflow_data.base)
        ELSE IF ~IsSome(ReadLayer(workflow_data.layers, Last(p)))
        THEN ReadNow(p) = Err(NoSuchLayer(Last(p)))
        ELSE IF ~ReadNow(Heads(p)).ok THEN ReadNow(p) = ReadNow(Heads(p))
        ELSE LET out == LayerFilter(Unwrap(ReadLayer(workflow_data.layers, Last(p))),
                                    ReadNow(Heads(p)).val)
             IN  IF out.ok THEN ReadNow(p) = Ok(out.val)
                 ELSE ReadNow(p) = Err(FilterError(out.err))

\* a runner materialized the two-layer stack [0, 1], and a path that ends in a
\* missing layer is refused
C1_Witness ==
    /\ "0/1" \in DOMAIN cache /\ cache["0/1"].ok
    /\ ReadNow(<<0, 1>>) = cache["0/1"]
    /\ ReadNow(<<10>>) = Err(NoSuchLayer(10))

\* C2: in every state of a run and for every path, the memoized
\* cached_read_stack returns what the uncached fold over the current base and
\* layer storage returns.
C2_MemoizationSound ==
    \A p \in ProbePaths :
        ReadNow(p) = Materialize(workflow_data.base, workflow_data.layers, p)

\* stacks were materialized, then layers were created, then stacks were
\* materialized again
C2_Witness ==
    /\ pc.at = "loop"
    /\ Len(workflow_data.layers) >= 3
    /\ Cardinality(DOMAIN cache) >= 3
    /\ \E k \in DOMAIN cache : k # "" /\ cache[k].ok

-----------------------------------------------------------------------------
(* Properties of the driver and its checkpoint files *)

LastRan == Unwrap(hist.last)
PrevRun == Unwrap(hist.prev)
FoundFiles == Unwrap(hist.found)

\* C3: when the step of index k returns an error and checkpointing is
\* enabled, the run ends with the skip file holding k and the data file
\* holding, whole, the WorkflowData as it was at the end of the last
\* successful step (as loaded or created, if none succeeded in this run),
\* which is the WorkflowData before the failed step touched the cursor or the
\* storage; k is the last step the run executed.
C3_FailureCheckpoint ==
    (pc.at = "failed" /\ ~input.no_checkpoint /\ hist.removed # hist.run) =>
        /\ IsSome(hist.last) /\ ~LastRan.ok /\ LastRan.idx = index
        /\ skipFile = Some(ToString(index))
        /\ dataFile = Some(DataContent(hist.snap, TRUE))
        /\ hist.snap = LastRan.wd
        /\ hist.executed[Len(hist.executed)] = index
        /\ \A i \in 1..Len(hist.executed) : hist.executed[i] <= index

\* a step fails after a successful step, having moved the cursor to its
\* `from` window and created a layer, and the checkpoint holds neither
C3_Witness ==
    /\ pc.at = "failed" /\ ~input.no_checkpoint /\ hist.removed # hist.run
    /\ index >= 1 /\ Len(hist.executed) >= 2
    /\ workflow_data.layers # LastRan.wd.layers
    /\ workflow_data.current_window # LastRan.wd.current_window
    /\ dataFile = Some(DataContent(LastRan.wd, TRUE))
    /\ skipFile = Some(ToString(index))

\* The loop of main from step idx on, every command exiting with success:
\* the WorkflowData it ends with, or the error of the step that fails
RECURSIVE RunSteps(_, _, _, _, _)
RunSteps(steps, idx, wd, c, files) ==
    IF idx >= Len(steps) THEN Ok(wd)
    ELSE LET stepped == StepExecute(steps[idx + 1], idx, wd, c, files, TRUE)
         IN  IF ~stepped.res.ok THEN stepped.res
             ELSE RunSteps(steps, idx + 1, stepped.wd, stepped.cache, stepped.files)

\* One run of all the steps in an empty directory
UninterruptedRun ==
    RunSteps(input.steps, 0, WorkflowDataNew(input.base), EmptyCache,
             [p \in {} |-> FileOf("", {})])

StartedFresh ==
    /\ pc # At("aborted", "start")
    /\ hist.startSkip = Some(0)
    /\ (pc.at = "loop" /\ hist.executed = << >>) =>
          /\ index = 0
          /\ workflow_data = WorkflowDataNew(input.base)

\* The run began from the checkpoint the two files hold
StartedFrom(skip_text, data) ==
    /\ pc # At("aborted", "start")
    /\ hist.startSkip = ParseUsize(skip_text)
    /\ (pc.at = "loop" /\ hist.executed = << >>) =>
          /\ Some(index) = ParseUsize(skip_text)
          /\ workflow_data = data.workflow_data

\* C5 as stated: a run that finds one of the two checkpoint files missing
\* starts fresh, without failing.
C5_FreshWhenEitherMissing ==
    (IsSome(hist.found) /\ (~IsSome(FoundFiles.skip) \/ ~IsSome(FoundFiles.data))) =>
        StartedFresh

\* C5, amended: a run that finds no skip file starts fresh, whether or not
\* there is a data file; a run that finds the skip file without the data file
\* fails before its first step; a run that finds both files resumes from them
\* when the skip file holds a number and the data file is whole, and fails
\* before its first step otherwise.
C5_StartByCheckpointFiles ==
    IsSome(hist.found) =>
        IF ~IsSome(FoundFiles.skip) THEN StartedFresh
        ELSE IF ~IsSome(FoundFiles.data) THEN pc = At("aborted", "start")
        ELSE IF /\ IsSome(ParseUsize(Unwrap(FoundFiles.skip)))
                /\ Unwrap(FoundFiles.data).complete
        THEN StartedFrom(Unwrap(FoundFiles.skip), Unwrap(FoundFiles.data))
        ELSE pc = At("aborted", "start")

\* a run found the skip file of an earlier run and no data file, and failed
\* before its first step
C5_Witness ==
    /\ IsSome(hist.found)
    /\ IsSome(FoundFiles.skip) /\ IsSome(ParseUsize(Unwrap(FoundFiles.skip)))
    /\ ~IsSome(FoundFiles.data)
    /\ pc = At("aborted", "start")
    /\ hist.executed = << >>

\* C6: when the process is killed while dump_checkpoint runs, the two
\* checkpoint files are either both as the run found them or both of the
\* checkpoint being written, the data file whole.
C6_CheckpointAtomic ==
    (/\ pc.at = "killed"
     /\ pc.then \in {"dump_skip_create", "dump_skip_write",
                     "dump_data_create", "dump_data_write"}
     /\ hist.removed # hist.run) =>
        \/ CheckpointFiles(skipFile, dataFile) = FoundFiles
        \/ CheckpointFiles(skipFile, dataFile) =
              CheckpointFiles(Some(ToString(checkpoint.skip)),
                              Some(DataContent(checkpoint.workflow_data, TRUE)))

-----------------------------------------------------------------------------
(* Properties of the steps and their runners, over one run of the driver. *)
(* They look at the step the run executed last: the WorkflowData before it *)
(* (LastRan.wd) and after it (LastRan.post), and what its runner returns   *)
(* on the window the step resolves.                                        *)

LastStepOf == input.steps[LastRan.idx + 1]
LastFrom == ResolveFrom(LastRan.wd, LastStepOf)
LastWindow == CurrentWindowStacks(LastFrom.val)
LastOutput ==
    RunnerExecute(LastStepOf.run, LastRan.wd.base, LastWindow.val, LastRan.wd.layers,
                  LastRan.cache, LastRan.files, LastRan.command_ok)

\* The last step ran the given kind of runner on a window it resolved
LastRanOn(kind) ==
    /\ IsSome(hist.last)
    /\ LastStepOf.run.run = kind
    /\ LastFrom.ok
    /\ LastWindow.ok

\* C7: AddLayers over a window of W stacks with k layers returns a Serial
\* output of W stacks, the i-th the i-th window stack followed by the k new
\* layer ids in the order of the layers; the storage holds the k layers under
\* these ids, once, after the layers it held; the step succeeds and leaves
\* the stacks that were there as they were.
C7_AddLayersOutput ==
    LastRanOn("AddLayers") =>
        LET n == Len(LastRan.wd.layers)
            k == Len(LastStepOf.run.layers)
            new_ids == [j \in 1..k |-> n + j - 1]
            out == LastOutput
        IN  /\ out.res.ok
            /\ out.res.val.kind = "Serial"
            /\ Len(out.res.val.serial) = Len(LastWindow.val)
            /\ \A i \in 1..Len(LastWindow.val) :
                  out.res.val.serial[i] = LastWindow.val[i] \o new_ids
            /\ Len(out.layers) = n + k
            /\ \A j \in 1..k :
                  ReadLayer(out.layers, new_ids[j]) = Some(LastStepOf.run.layers[j])
            /\ \A id \in 0..(n - 1) :
                  ReadLayer(out.layers, id) = ReadLayer(LastRan.wd.layers, id)
            /\ LastRan.ok
            /\ LastRan.post.layers = out.layers
            /\ SubSeq(LastRan.post.stacks, 1, Len(LastRan.wd.stacks)) = LastRan.wd.stacks

\* AddLayers of two layers ran over a window of two stacks of one layer each
C7_Witness ==
    /\ LastRanOn("AddLayers")
    /\ Len(LastStepOf.run.layers) = 2
    /\ Len(LastWindow.val) = 2
    /\ \A i \in 1..2 : Len(LastWindow.val[i]) = 1
    /\ LastWindow.val[1] # LastWindow.val[2]
    /\ LastRan.ok
    /\ Len(LastRan.post.stacks) = Len(LastRan.wd.stacks) + 2

\* The names the substituent files of the last step carry, and the last file
\* that carries a name
LastNames ==
    {LastStepOf.run.files[f].substituent_name : f \in 1..Len(LastStepOf.run.files)}
LastFileNamed(name) ==
    CHOOSE f \in 1..Len(LastStepOf.run.files) :
        /\ LastStepOf.run.files[f].substituent_name = name
        /\ \A later \in (f + 1)..Len(LastStepOf.run.files) :
              LastStepOf.run.files[later].substituent_name # name

\* Every group of a Named output holds, for each of the W window stacks in
\* order, that stack followed by the id of the Fill layer that the last file
\* of the group's name created for it; n: the layers stored before the step
GroupsExtendWindow(groups, layers, n) ==
    \A g \in 1..Len(groups) :
        /\ groups[g].name \in LastNames
        /\ Len(groups[g].stacks) = Len(LastWindow.val)
        /\ \A i \in 1..Len(LastWindow.val) :
              LET id == n + (LastFileNamed(groups[g].name) - 1) * Len(LastWindow.val)
                          + i - 1
              IN  /\ groups[g].stacks[i] = Append(LastWindow.val[i], id)
                  /\ IsSome(ReadLayer(layers, id))
                  /\ Unwrap(ReadLayer(layers, id)).layer = "Fill"

GroupsInNameOrder(groups) ==
    \A g \in 1..(Len(groups) - 1) : NameLess(groups[g].name, groups[g + 1].name)

StacksOf(wd, range) == [k \in 1..RangeLen(range) |-> wd.stacks[range.start + k]]

\* The stacks a runner output holds: those of a Serial output, those of the
\* groups of a Named output one group after the other
RECURSIVE GroupStacks(_)
GroupStacks(groups) ==
    IF Len(groups) = 0 THEN << >>
    ELSE Head(groups).stacks \o GroupStacks(Tail(groups))

ProducedStacks(output) ==
    IF output.kind = "Serial" THEN output.serial ELSE GroupStacks(output.named)

\* What the runner of the last step returns on the stacks of a window
LastOutputOn(range) ==
    RunnerExecute(LastStepOf.run, LastRan.wd.base, StacksOf(LastRan.wd, range),
                  LastRan.wd.layers, LastRan.cache, LastRan.files,
                  LastRan.command_ok).res.val

\* The window the last step is to run over: windows[from], or the cursor
LastSource ==
    IF IsSome(LastStepOf.from) THEN LastRan.wd.windows[Unwrap(LastStepOf.from)]
    ELSE LastRan.wd.current_window

\* The last step succeeded with a runner that returned stacks
LastProduced ==
    /\ IsSome(hist.last)
    /\ LastRan.ok
    /\ LastStepOf.run.run # "OutputXYZ"
    /\ LastOutputOn(LastSource).kind # "None"

\* The cursor window is the stacks the last step appended, and they are what
\* the runner returns on the window the step is to run over
CursorIsProduced ==
    /\ LastRan.post.current_window =
          Range(Len(LastRan.wd.stacks), Len(LastRan.post.stacks))
    /\ StacksOf(LastRan.post, LastRan.post.current_window) =
          ProducedStacks(LastOutputOn(LastSource))
    /\ SubSeq(LastRan.post.stacks, 1, Len(LastRan.wd.stacks)) = LastRan.wd.stacks

NameIsCursor ==
    IsSome(LastStepOf.name) =>
        /\ Unwrap(LastStepOf.name) \in DOMAIN LastRan.post.windows
        /\ LastRan.post.windows[Unwrap(LastStepOf.name)] = LastRan.post.current_window

\* The windows a Named output installs: [prefix, group].join("_"), the prefix
\* the name of the step or else its index; on the stacks of the group
LastPrefix ==
    IF IsSome(LastStepOf.name) THEN Unwrap(LastStepOf.name) ELSE ToString(LastRan.idx)
LastGroups ==
    IF LastOutputOn(LastSource).kind = "Named" THEN LastOutputOn(LastSource).named
    ELSE << >>
GroupWindow(g) == LastPrefix \o "_" \o LastGroups[g].name
GroupRange(g) ==
    LET start == Len(LastRan.wd.stacks)
                   + Len(GroupStacks(SubSeq(LastGroups, 1, g - 1)))
    IN  Range(start, start + Len(LastGroups[g].stacks))

-----------------------------------------------------------------------------
(* The sparse bond matrix on its own: a matrix built by new or new_filled, *)
(* then changed by set_bond, offset and migrate, the matrix migrated in    *)
(* being built the same way.                                               *)

MaxBondLen == 2     \* the largest bond matrix

BondValues == {None, Some(0), Some(1)}

\* new(n) or new_filled(n)
FreshMatrices(n) == {BondNew(k) : k \in 0..n} \cup {BondNewFilled(k) : k \in 1..n}

\* the matrices migrated in: fresh ones, and fresh ones after one set_bond
\* between their first and their last index, in either order
OtherMatrices(n) ==
    FreshMatrices(n)
    \cup {SetBond(m, 0, Len(m) - 1, Some(1)) : m \in FreshMatrices(n) \ {<< >>}}
    \cup {SetBond(m, Len(m) - 1, 0, None) : m \in FreshMatrices(n) \ {<< >>}}

\* no driver runs while a structure is exercised on its own
DriverIdle ==
    /\ input = WorkflowInput(MolDefault, << >>, FALSE)
    /\ skipFile = None
    /\ dataFile = None
    /\ outFiles = [p \in {} |-> FileOf("", {})]
    /\ pc = At("idle", "")
    /\ index = 0
    /\ workflow_data = NoData
    /\ checkpoint = NoCheckpoint
    /\ cache = EmptyCache
    /\ hist = HistInit

InitBonds ==
    /\ atoms = << >>
    /\ matrix \in FreshMatrices(MaxBondLen)
    /\ molecule = MolDefault
    /\ atomOp = NoAtomOp
    /\ tempDir = None
    /\ DriverIdle

\* M.set_bond(a, b, bond)
BondSet ==
    /\ \E a \in 0..(MaxBondLen - 1), b \in 0..(MaxBondLen - 1), bond \in BondValues :
         /\ matrix' = SetBond(matrix, a, b, bond)
         /\ atomOp' = AtomOp("set_bond", <<a, b>>, bond)
    /\ UNCHANGED <<atoms, molecule, tempDir, runVars>>

\* M = M.offset(n)
BondShift ==
    /\ \E n \in 1..(MaxBondLen - Len(matrix)) :
         /\ matrix' = BondOffset(matrix, n)
         /\ atomOp' = AtomOp("offset", n, None)
    /\ UNCHANGED <<atoms, molecule, tempDir, runVars>>

\* M.migrate(other)
BondMerge ==
    /\ \E other \in OtherMatrices(MaxBondLen) :
         /\ matrix' = BondMigrateLoop(matrix, other, 0, 0)
         /\ atomOp' = AtomOp("migrate", Len(other), None)
    /\ UNCHANGED <<atoms, molecule, tempDir, runVars>>

NextBonds ==
    \/ BondSet
    \/ BondShift
    \/ BondMerge

SpecBonds == InitBonds /\ [][NextBonds]_vars

-----------------------------------------------------------------------------
(* Properties of the sparse bond matrix *)

\* every row is as long as the matrix has rows
Square(m) == \A i \in 1..Len(m) : Len(m[i]) = Len(m)

\* C11: in every state reached from new(n) or new_filled(n) by set_bond,
\* offset and migrate, the bond matrix is square and read_bond(a, b) equals
\* read_bond(b, a) for all a and b, also for indexes past its end.
C11_SymmetricSquare ==
    /\ Square(matrix)
    /\ \A a \in 0..(MaxBondLen + 1), b \in 0..(MaxBondLen + 1) :
         ReadBond(matrix, a, b) = ReadBond(matrix, b, a)

\* a migrate has left a matrix with a bond off the diagonal, a bond of
\* order 0 and a pair without bond
C11_Witness ==
    /\ atomOp.op = "migrate"
    /\ Len(matrix) = 2
    /\ ReadBond(matrix, 1, 0) = Some(1)
    /\ ReadBond(matrix, 0, 0) = Some(0)
    /\ ReadBond(matrix, 1, 1) = None

\* the closed form of migrate is what its loops leave
BondMigrateClosedForm ==
    \A other \in OtherMatrices(MaxBondLen) :
        BondMigrate(matrix, other) = BondMigrateLoop(matrix, other, 0, 0)
-----------------------------------------------------------------------------
(* The sparse molecule on its own: a molecule whose atom list and bond     *)
(* matrix have the same length, changed by extend_to, offset, migrate and  *)
(* the assembly of components.                                             *)

MaxMolLen == 2      \* the longest molecule

SeedMolecules ==
    {m \in {MolDefault,
            Molecule(<<Carbon(<<0, 0, 0>>)>>, BondNew(1), None, None, ""),
            Molecule(<<Hydrogen(<<1, 0, 0>>)>>, BondNewFilled(1),
                     Some({<<"c", 0>>, <<"h", 0>>}), Some({<<"g", 0>>}), ""),
            Molecule(<<Carbon(<<0, 0, 0>>), Hydrogen(<<1, 0, 0>>)>>,
                     SetBond(BondNew(2), 0, 1, Some(1)), Some({<<"c", 0>>}), None, ""),
            Molecule(<<None, Some(Atom3D(0, <<0, 0, 0>>))>>, BondNew(2),
                     None, Some({<<"g", 1>>}), ""),
            Molecule(<<None, None, Oxygen(<<0, 0, 1>>)>>,
                     SetBond(BondNew(3), 2, 0, Some(2)), Some({<<"o", 2>>}),
                     Some({<<"g", 2>>, <<"k", 0>>}), "")} :
        MolLen(m) <= MaxMolLen}

\* TryFrom<SparseMoleculeComponent>: the content extended to the capacity
\* and grouped, whole, under the name of the component
ComponentMolecule(name, content, capacity) ==
    LET Grouped(ext) ==
            IF MolLen(ext) = 0 THEN Err("Capacity of component is invalid")
            ELSE LayerFilter(GroupMap(name, MolLen(ext) - 1), ext)
    IN  Grouped(MolExtendTo(content, capacity))

InitMol ==
    /\ atoms = << >>
    /\ matrix = << >>
    /\ molecule \in SeedMolecules
    /\ atomOp = NoAtomOp
    /\ tempDir = None
    /\ DriverIdle

\* M.extend_to(capacity)
MolExtend ==
    /\ \E capacity \in 0..MaxMolLen :
         /\ molecule' = MolExtendTo(molecule, capacity)
         /\ atomOp' = AtomOp("extend_to", capacity, molecule)
    /\ UNCHANGED <<atoms, matrix, tempDir, runVars>>

\* M = M.offset(n)
MolShift ==
    /\ \E n \in 0..(MaxMolLen - MolLen(molecule)) :
         /\ molecule' = MolOffset(molecule, n)
         /\ atomOp' = AtomOp("offset", n, molecule)
    /\ UNCHANGED <<atoms, matrix, tempDir, runVars>>

\* M.migrate(other)
MolMerge ==
    /\ \E other \in SeedMolecules :
         /\ molecule' = MolMigrate(molecule, other)
         /\ atomOp' = AtomOp("migrate", other, molecule)
    /\ UNCHANGED <<atoms, matrix, tempDir, runVars>>

\* TryFrom<SparseMoleculeLoader>, Component: one turn of the loop
\* molecule.migrate(component.offset(molecule.len()))
MolAssemble ==
    /\ \E content \in SeedMolecules, capacity \in 0..MaxMolLen :
         \E component \in {ComponentMolecule("part", content, capacity)} :
             /\ component.ok
             /\ MolLen(molecule) + MolLen(component.val) <= MaxMolLen
             /\ molecule' = MolMigrate(molecule,
                                MolOffset(component.val, MolLen(molecule)))
             /\ atomOp' = AtomOp("component", component.val, molecule)
    /\ UNCHANGED <<atoms, matrix, tempDir, runVars>>

NextMol ==
    \/ MolExtend
    \/ MolShift
    \/ MolMerge
    \/ MolAssemble

SpecMol == InitMol /\ [][NextMol]_vars

-----------------------------------------------------------------------------
(* Properties of the sparse molecule *)

\* C12: in every state reached from a molecule whose atoms and bonds have
\* the same length by extend_to, offset, migrate (with molecules whose
\* lengths agree) and the component assembly migrate(component.offset(len)),
\* atoms.len() equals bonds.len().
C12_LengthsAgree == Len(molecule.atoms) = Len(molecule.bonds)

\* a component was assembled onto a molecule that held atoms already, and
\* the molecule grew
C12_Witness ==
    /\ atomOp.op = "component"
    /\ MolLen(atomOp.out) = 1
    /\ MolLen(molecule) = 2
    /\ Len(molecule.bonds) = 2

\* the ids or groups of a molecule, every index shifted by n
Shifted(pairs, n) ==
    IF IsSome(pairs) THEN Some({<<p[1], p[2] + n>> : p \in Unwrap(pairs)}) ELSE None

\* C15: for every molecule M and every n, M.offset(n) has length
\* M.len() + n; every atom position below n is a hole and every bond pair
\* with an index below n reads None; the atom at i + n is M's atom at i, the
\* bond at (a + n, b + n) is M's bond at (a, b), and every id and group
\* index is M's index plus n.
C15_OffsetShifts ==
    atomOp.op = "offset" =>
        /\ MolLen(molecule) = MolLen(atomOp.out) + atomOp.arg
        /\ Len(molecule.bonds) = Len(atomOp.out.bonds) + atomOp.arg
        /\ \A i \in 0..(atomOp.arg - 1) : ReadAtom(molecule.atoms, i) = None
        /\ \A a \in 0..(MaxMolLen + 1), b \in 0..(MaxMolLen + 1) :
             /\ (a < atomOp.arg \/ b < atomOp.arg) =>
                    ReadBond(molecule.bonds, a, b) = None
             /\ ReadBond(molecule.bonds, a + atomOp.arg, b + atomOp.arg)
                    = ReadBond(atomOp.out.bonds, a, b)
        /\ \A i \in 0..(MaxMolLen + 1) :
             ReadAtom(molecule.atoms, i + atomOp.arg) = ReadAtom(atomOp.out.atoms, i)
        /\ molecule.ids = Shifted(atomOp.out.ids, atomOp.arg)
        /\ molecule.groups = Shifted(atomOp.out.groups, atomOp.arg)

\* a molecule with an atom, a bond, two ids and a group was offset by one
C15_Witness ==
    /\ atomOp.op = "offset"
    /\ atomOp.arg = 1
    /\ ReadAtom(molecule.atoms, 0) = None
    /\ ReadAtom(molecule.atoms, 1) = Hydrogen(<<1, 0, 0>>)
    /\ ReadBond(molecule.bonds, 1, 1) = Some(0)
    /\ molecule.ids = Some({<<"c", 1>>, <<"h", 1>>})
    /\ molecule.groups = Some({<<"g", 1>>})

\* C16: for every molecule X, whatever of its ids and groups is None or
\* Some, X.migrate(Default::default()) leaves X equal to what it was.
C16_MigrateDefaultIsIdentity ==
    (atomOp.op = "migrate" /\ atomOp.arg = MolDefault) => molecule = atomOp.out

\* the default was migrated into a molecule with atoms, a bond and ids but
\* no groups
C16_Witness ==
    /\ atomOp.op = "migrate"
    /\ atomOp.arg = MolDefault
    /\ MolLen(atomOp.out) = 2
    /\ ReadBond(atomOp.out.bonds, 1, 0) = Some(1)
    /\ IsSome(atomOp.out.ids)
    /\ ~IsSome(atomOp.out.groups)
    /\ molecule = atomOp.out
-----------------------------------------------------------------------------
(* Properties of the calls that change the sparse atom list *)

\* C13: for every list, every offset o and every atom sequence A (the empty
\* one and those reaching past the end included), set_atoms(o, A) completes
\* without failure and leaves the list with length max(old length, o + |A|),
\* position o + j holding A[j] for every j < |A|, every other position that
\* existed unchanged and every new position not written by A a hole.
C13_SetAtomsTotal ==
    atomOp.op = "set_atoms" =>
        /\ atomOp.res.ok
        /\ Len(atoms) = Max(Len(atomOp.out), atomOp.arg[1] + Len(atomOp.arg[2]))
        /\ \A i \in 0..(Len(atoms) - 1) :
             ReadAtom(atoms, i) =
                 IF i >= atomOp.arg[1] /\ i < atomOp.arg[1] + Len(atomOp.arg[2])
                 THEN atomOp.arg[2][i - atomOp.arg[1] + 1]
                 ELSE ReadAtom(atomOp.out, i)

\* C14: after self.migrate(other) the list has length max(len(self),
\* len(other)) and, at every index i, holds other[i] when other[i] is
\* present, its element valid or not, and the old self[i] otherwise.
C14_MigrateTakesPresent ==
    atomOp.op = "migrate" =>
        /\ Len(atoms) = Max(Len(atomOp.out), Len(atomOp.arg))
        /\ \A i \in 0..MaxAtoms :
             ReadAtom(atoms, i) =
                 IF IsSome(ReadAtom(atomOp.arg, i)) THEN ReadAtom(atomOp.arg, i)
                 ELSE ReadAtom(atomOp.out, i)

\* an atom with an invalid element overwrote a valid atom, and a hole of
\* other kept the old atom
C14_Witness ==
    /\ atomOp.op = "migrate"
    /\ atomOp.out = <<Carbon(<<0, 0, 0>>), Hydrogen(<<1, 0, 0>>)>>
    /\ atomOp.arg = <<Some(Atom3D(0, <<0, 0, 0>>)), None>>
    /\ atoms = <<Some(Atom3D(0, <<0, 0, 0>>)), Hydrogen(<<1, 0, 0>>)>>
-----------------------------------------------------------------------------
(* Substituent attachment on its own: generate_layer applied to a target,  *)
(* a substituent and two selectors, and a Substituent step run over the    *)
(* base of a new WorkflowData.                                             *)

MaxFiles == 2       \* the most substituent files of a step

\* targets: the base; the base with a longer C-H; one with its second
\* atom along y; one whose second cell is a hole
AttachTargets ==
    {BaseMolecule,
     Molecule(<<Carbon(<<0, 0, 0>>), Hydrogen(<<2, 0, 0>>)>>,
              SetBond(BondNew(2), 0, 1, Some(1)), Some({<<"c", 0>>}), Some({}), "m"),
     Molecule(<<Carbon(<<0, 0, 0>>), Hydrogen(<<0, 1, 0>>)>>,
              SetBond(BondNew(2), 0, 1, Some(1)), Some({<<"c", 0>>}), Some({}), "m"),
     Molecule(<<Carbon(<<0, 0, 0>>), None>>, BondNew(2),
              Some({<<"c", 0>>}), Some({}), "m")}

\* a fragment whose on_body atom is missing, and one without either atom
SubNoBody ==
    Substituent(SelIndex(1), SelIndex(2),
        Molecule(<<Oxygen(<<0, 0, 0>>), Hydrogen(<<1, 0, 0>>), None>>,
                 SetBond(BondNew(3), 0, 1, Some(1)),
                 Some({}), Some({}), "nb"),
        "Nb")
SubNoAtoms ==
    Substituent(SelIndex(1), SelIndex(0),
        Molecule(<<None, None>>, BondNew(2), Some({}), Some({}), "na"),
        "Na")

AttachSubstituents == {SubMe, SubBr, SubCl, SubMe2, SubNoBody, SubNoAtoms}

\* selectors of the first atom, by index and by id, of the second cell, of
\* a cell past the end and of an id the target does not have
AttachSelectors == {SelIndex(0), SelId("c"), SelIndex(1), SelIndex(5), SelId("zz")}

InitAttach ==
    /\ atoms = << >>
    /\ matrix = << >>
    /\ molecule \in AttachTargets
    /\ atomOp = NoAtomOp
    /\ tempDir = None
    /\ DriverIdle

\* substituent.generate_layer(target, entry, exit)
Attach ==
    /\ atomOp = NoAtomOp
    /\ \E s \in AttachSubstituents, entry \in AttachSelectors, exit \in AttachSelectors :
         atomOp' = AtomOp("generate_layer",
                          [s |-> s, entry |-> entry, exit |-> exit],
                          GenerateLayer(s, molecule, entry, exit))
    /\ UNCHANGED <<atoms, matrix, molecule, tempDir, runVars>>

\* a Substituent step, the first of a workflow over the target
AttachStep ==
    /\ atomOp = NoAtomOp
    /\ \E files \in SeqsUpTo(AttachSubstituents, MaxFiles) \ {<< >>},
          entry \in AttachSelectors, exit \in AttachSelectors :
         atomOp' = AtomOp("substituent_step",
                          [files |-> files, entry |-> entry, exit |-> exit],
                          StepExecute(Step(None, Some("s"),
                                           RunSubstituent(entry, exit, files)),
                                      0, WorkflowDataNew(molecule), EmptyCache,
                                      outFiles, TRUE))
    /\ UNCHANGED <<atoms, matrix, molecule, tempDir, runVars>>

NextAttach ==
    \/ Attach
    \/ AttachStep

SpecAttach == InitAttach /\ [][NextAttach]_vars

-----------------------------------------------------------------------------
(* Properties of the substituent attachment *)

\* the designated atom that is looked for first and not found
MissingAtom(s, target, entry, exit) ==
    IF ~IsSome(SelGetAtom(entry, target)) THEN Some("EntryAtomNotFoundInTarget")
    ELSE IF ~IsSome(SelGetAtom(exit, target)) THEN Some("ExitAtomNotFoundInTarget")
    ELSE IF ~IsSome(SelGetAtom(s.direction, s.structure))
    THEN Some("DirectionAtomNotFoundInSubstituent")
    ELSE IF ~IsSome(SelGetAtom(s.on_body, s.structure))
    THEN Some("OnBodyAtomNotFoundInSusbstituent")
    ELSE None

\* the first file of a step for which a designated atom is missing
RECURSIVE FirstMissing(_, _, _, _)
FirstMissing(files, target, entry, exit) ==
    IF Len(files) = 0 THEN None
    ELSE IF IsSome(MissingAtom(Head(files), target, entry, exit))
    THEN MissingAtom(Head(files), target, entry, exit)
    ELSE FirstMissing(Tail(files), target, entry, exit)

\* C17: generate_layer fails with EntryAtomNotFoundInTarget when the entry
\* selector resolves to no atom of the target, with ExitAtomNotFoundInTarget
\* for the exit selector, with DirectionAtomNotFoundInSubstituent and
\* OnBodyAtomNotFoundInSusbstituent for the selectors of the substituent,
\* looked for in that order, and with none of them when the four atoms are
\* there; a Substituent step in which a file fails so returns that error
\* and leaves the stacks, the windows and the cursor as they were.
C17_MissingAtomErrors ==
    /\ atomOp.op = "generate_layer" =>
         IF IsSome(MissingAtom(atomOp.arg.s, molecule, atomOp.arg.entry, atomOp.arg.exit))
         THEN atomOp.out = Err(Error(Unwrap(MissingAtom(atomOp.arg.s, molecule,
                                         atomOp.arg.entry, atomOp.arg.exit)), 0, ""))
         ELSE atomOp.out.ok
    /\ atomOp.op = "substituent_step" =>
         IF IsSome(FirstMissing(atomOp.arg.files, molecule, atomOp.arg.entry,
                                atomOp.arg.exit))
         THEN /\ atomOp.out.res = Err(Error(Unwrap(FirstMissing(atomOp.arg.files,
                                      molecule, atomOp.arg.entry, atomOp.arg.exit)), 0, ""))
              /\ atomOp.out.wd.stacks = WorkflowDataNew(molecule).stacks
              /\ atomOp.out.wd.windows = WorkflowDataNew(molecule).windows
              /\ atomOp.out.wd.current_window = WorkflowDataNew(molecule).current_window
         ELSE atomOp.out.res.ok

\* a step whose first file attaches and whose second file has no direction
\* atom, over a target whose entry and exit atoms are there
C17_Witness ==
    /\ atomOp.op = "substituent_step"
    /\ molecule = BaseMolecule
    /\ atomOp.arg.files = <<SubMe, SubCl>>
    /\ atomOp.arg.entry = SelIndex(0)
    /\ atomOp.arg.exit = SelIndex(1)
    /\ atomOp.out.res = Err(Error("DirectionAtomNotFoundInSubstituent", 0, ""))
    /\ Len(atomOp.out.wd.layers) = 1
    /\ Len(atomOp.out.wd.stacks) = 1

\* the atom generate_layer wrote at the entry index, and the entry atom
WrittenAtEntry ==
    ReadAtom(atomOp.out.val.atoms, Unwrap(SelToIndex(atomOp.arg.entry, molecule)))
EntryAtom == SelGetAtom(atomOp.arg.entry, molecule)

\* C18: after an attachment the atom written at the entry index of the
\* target, the transformed on_body atom, has the position of the entry atom
\* of the target, whatever the geometry of the target and the substituent.
C18_OnBodyLandsOnEntry ==
    (atomOp.op = "generate_layer" /\ atomOp.out.ok) =>
        /\ IsSome(WrittenAtEntry)
        /\ Unwrap(WrittenAtEntry).position = Unwrap(EntryAtom).position

-----------------------------------------------------------------------------
(* The Function runner, statement by statement: workflow/runner.rs.  The    *)
(* temporary directory is the record of its two files, stacks.json and      *)
(* output.json, each absent (None) or present with its content.             *)

MaxExit == 1
ExitCodes == 0..MaxExit

\* tempdir(): a fresh, empty directory
TempDirNew == [stacks |-> None, output |-> None]

\* Drop of temp_directory at the end of its scope: the directory is removed
TempDirDrop(dir) == None

\* exit_status.success()
ExitSuccessAlways(code) == TRUE
ExitSuccess(code) == code = 0

\* the content of output.json: text that serde_json parses to a
\* RunnerOutput, or text that it does not
Parsed(output) == [parsed |-> Some(output)]
Unparsable == [parsed |-> None]

\* what the command leaves in its current directory
CommandOutputs ==
    {None, Some(Unparsable), Some(Parsed(NoneOut)),
     Some(Parsed(SerialOut(<< <<0>> >>))),
     Some(Parsed(NamedOut(<<[name |-> "Me", stacks |-> << <<0>> >>]>>)))}

FunctionWindows == {<< >>, << << >> >>, << <<0>> >>}

\* the call in progress: its window, the input read, the exit code of the
\* command, what the command wrote, whether output.json was opened, and
\* the value returned
FunctionCall(window, read, status, wrote, opened, out) ==
    [op |-> "function", arg |-> window, read |-> read, status |-> status,
     wrote |-> wrote, opened |-> opened, out |-> out]

InitFunction ==
    /\ atoms = << >>
    /\ matrix = << >>
    /\ molecule \in AttachTargets
    /\ atomOp = FunctionCall(<< >>, None, None, None, FALSE, None)
    /\ tempDir = None
    /\ input = WorkflowInput(MolDefault, << >>, FALSE)
    /\ skipFile = None
    /\ dataFile = None
    /\ outFiles = [p \in {} |-> FileOf("", {})]
    /\ pc = At("fn_read", "")
    /\ index = 0
    /\ workflow_data = NoData
    /\ checkpoint = NoCheckpoint
    /\ cache = EmptyCache
    /\ hist = HistInit

\* a return of the arm, by "?" or by Ok(output): the locals are dropped
FunctionReturn(call, res) ==
    /\ pc' = At("fn_returned", "")
    /\ tempDir' = TempDirDrop(tempDir)
    /\ atomOp' = [call EXCEPT !.out = Some(res)]

\* let input = current_window ... cached_read_stack ... collect()?
FunctionRead ==
    /\ pc.at = "fn_read"
    /\ \E window \in FunctionWindows :
         \E read \in {ReadWindow(EmptyCache, molecule, << >>, window).res} :
           IF ~read.ok
           THEN FunctionReturn([atomOp EXCEPT !.arg = window], read)
           ELSE /\ pc' = At("fn_tempdir", "")
                /\ atomOp' = [atomOp EXCEPT !.arg = window, !.read = Some(read.val)]
                /\ UNCHANGED tempDir
    /\ UNCHANGED <<atoms, matrix, molecule, input, skipFile, dataFile, outFiles,
                   index, workflow_data, checkpoint, cache, hist>>

\* let temp_directory = tempdir().map_err(TempDirCreateError)?
FunctionTempDir ==
    /\ pc.at = "fn_tempdir"
    /\ \E failed \in BOOLEAN :
         IF failed
         THEN FunctionReturn(atomOp, Err(Error("TempDirCreateError", 0, "")))
         ELSE /\ pc' = At("fn_write", "")
              /\ tempDir' = Some(TempDirNew)
              /\ UNCHANGED atomOp
    /\ UNCHANGED <<atoms, matrix, molecule, input, skipFile, dataFile, outFiles,
                   index, workflow_data, checkpoint, cache, hist>>

\* File::create(stacks.json)?; file.write_all(input)?
FunctionWrite ==
    /\ pc.at = "fn_write"
    /\ \E failed \in {"create", "write", "no"} :
         IF failed # "no"
         THEN FunctionReturn(atomOp, Err(Error("FileWriteError", 0, "stacks.json")))
         ELSE /\ pc' = At("fn_command", "")
              /\ tempDir' = Some([Unwrap(tempDir) EXCEPT !.stacks = atomOp.read])
              /\ UNCHANGED atomOp
    /\ UNCHANGED <<atoms, matrix, molecule, input, skipFile, dataFile, outFiles,
                   index, workflow_data, checkpoint, cache, hist>>

\* Command::new(command).args(arguments).current_dir(temp_directory)
\* .status().map_err(CommandExecutionFail)?: the command is not started, or
\* it runs in the directory and exits
FunctionCommand ==
    /\ pc.at = "fn_command"
    /\ \/ FunctionReturn(atomOp, Err(Error("CommandExecutionFail", 0, "")))
       \/ \E code \in ExitCodes, wrote \in CommandOutputs :
            /\ pc' = At("fn_status", "")
            /\ tempDir' = Some([Unwrap(tempDir) EXCEPT !.output = wrote])
            /\ atomOp' = [atomOp EXCEPT !.status = Some(code), !.wrote = wrote]
    /\ UNCHANGED <<atoms, matrix, molecule, input, skipFile, dataFile, outFiles,
                   index, workflow_data, checkpoint, cache, hist>>

\* if !exit_status.success() { Err(CommandExitStatus(exit_status))? }
FunctionStatus ==
    /\ pc.at = "fn_status"
    /\ IF ~ExitSuccess(Unwrap(atomOp.status))
       THEN FunctionReturn(atomOp, Err(Error("CommandExitStatus", 0, "")))
       ELSE /\ pc' = At("fn_output", "")
            /\ UNCHANGED <<atomOp, tempDir>>
    /\ UNCHANGED <<atoms, matrix, molecule, input, skipFile, dataFile, outFiles,
                   index, workflow_data, checkpoint, cache, hist>>

\* File::open(output.json).map_err(FileReadError)?;
\* serde_json::from_reader(file)?; Ok(output)
FunctionOutput ==
    /\ pc.at = "fn_output"
    /\ \E file \in {Unwrap(tempDir).output} :
         IF ~IsSome(file)
         THEN FunctionReturn(atomOp, Err(Error("FileReadError", 0, "output.json")))
         ELSE IF ~IsSome(Unwrap(file).parsed)
         THEN FunctionReturn([atomOp EXCEPT !.opened = TRUE],
                             Err(Error("SerdeJSONError", 0, "")))
         ELSE FunctionReturn([atomOp EXCEPT !.opened = TRUE],
                             Ok(Unwrap(Unwrap(file).parsed)))
    /\ UNCHANGED <<atoms, matrix, molecule, input, skipFile, dataFile, outFiles,
                   index, workflow_data, checkpoint, cache, hist>>

NextFunction ==
    \/ FunctionRead
    \/ FunctionTempDir
    \/ FunctionWrite
    \/ FunctionCommand
    \/ FunctionStatus
    \/ FunctionOutput

SpecFunction == InitFunction /\ [][NextFunction]_vars

\* the command ran and exited with a status other than 0
ExitedNonZero == IsSome(atomOp.status) /\ Unwrap(atomOp.status) # 0

\* the call met no failure of the file system or of the process start, and
\* what the command wrote, if anything, parses
PlainCall ==
    /\ atomOp.out # Some(Err(Error("TempDirCreateError", 0, "")))
    /\ atomOp.out # Some(Err(Error("FileWriteError", 0, "stacks.json")))
    /\ atomOp.out # Some(Err(Error("CommandExecutionFail", 0, "")))
    /\ atomOp.out # Some(Err(Error("SerdeJSONError", 0, "")))

\* the same call in one step, as Runner::execute is used by the steps
PlainResult(call) ==
    ExecuteFunction(RunFunction(IF IsSome(call.wrote) THEN Unwrap(call.wrote).parsed
                                ELSE None),
                    molecule, call.arg, << >>, EmptyCache, outFiles,
                    IsSome(call.status) /\ Unwrap(call.status) = 0).res

\* C19: when the Function arm has returned, its temporary directory is gone,
\* whichever statement returned (read failure, tempdir, write or spawn
\* failure, non-zero exit, missing or unparsable output.json, success); and
\* when the command exited with a status other than 0 the value returned is
\* the CommandExitStatus error, output.json was not opened, and so no stacks
\* come back.  On the calls without file-system faults the value is the one
\* the one-step runner computes.
C19_FunctionExitAndTempDir ==
    pc.at = "fn_returned" =>
        /\ tempDir = None
        /\ IsSome(atomOp.out)
        /\ ExitedNonZero =>
             /\ atomOp.out = Some(Err(Error("CommandExitStatus", 0, "")))
             /\ ~atomOp.opened
        /\ PlainCall => atomOp.out = Some(PlainResult(atomOp))

\* the command wrote a well-formed output.json with stacks, exited with 1,
\* and the arm returned
C19_Witness ==
    /\ pc.at = "fn_returned"
    /\ atomOp.status = Some(1)
    /\ atomOp.wrote = Some(Parsed(SerialOut(<< <<0>> >>)))
    /\ atomOp.out = Some(Err(Error("CommandExitStatus", 0, "")))
    /\ tempDir = None

-----------------------------------------------------------------------------
(* The export of a structure by Runner::OutputXYZ: workflow/runner.rs *)

\* the list [C, hole, O, invalid, H]
ExampleList ==
    <<Carbon(<<0, 0, 0>>), None, Oxygen(<<1, 0, 0>>),
      Some(Atom3D(0, <<2, 0, 0>>)), Hydrogen(<<3, 0, 0>>)>>

ExportLists == SeqsUpTo(AtomCells, MaxAtoms) \cup {ExampleList}

InitExport ==
    /\ atoms \in ExportLists
    /\ matrix = << >>
    /\ molecule = MolDefault
    /\ atomOp = NoAtomOp
    /\ tempDir = None
    /\ DriverIdle

\* Runner::OutputXYZ executed on the window of the base stack, the base
\* holding the atoms and titled "out"
Export ==
    /\ atomOp = NoAtomOp
    /\ \E prefix \in {"", "head"}, suffix \in {"", "tail"} :
         \E ran \in {RunnerExecute(RunOutputXYZ(prefix, suffix, "dir", "xyz"),
                                   Molecule(atoms, BondNew(Len(atoms)), None, None, "out"),
                                   << << >> >>, << >>, EmptyCache, outFiles, TRUE)} :
           /\ atomOp' = AtomOp("output_xyz", [prefix |-> prefix, suffix |-> suffix],
                               Some(ran.res))
           /\ outFiles' = ran.files
    /\ UNCHANGED <<atoms, matrix, molecule, tempDir, input, skipFile, dataFile,
                   pc, index, workflow_data, checkpoint, cache, hist>>

\* AtomListMap::from(&data.atoms) alone
ExportMap ==
    /\ atomOp = NoAtomOp
    /\ atomOp' = AtomOp("atom_map", 0, Some(AtomListMap(atoms)))
    /\ UNCHANGED <<atoms, matrix, molecule, tempDir, runVars>>

NextExport ==
    \/ Export
    \/ ExportMap

SpecExport == InitExport /\ [][NextExport]_vars

\* the sparse indexes of the present atoms with a valid element
ValidAt(list) == {i \in 0..(Len(list) - 1) : PresentValid(list[i + 1])}

\* how many of them lie below i
ValidBelow(list, i) == Cardinality({j \in ValidAt(list) : j < i})

\* the atom line of an atom
AtomLine(atom) ==
    JoinStrings(<<Unwrap(ElementSymbol(atom.element)), ToString(atom.position[1]),
                  ToString(atom.position[2]), ToString(atom.position[3])>>, " ")

\* one line per present valid atom, in sparse-index order
LinePerValidAtom(list) ==
    [k \in 1..Cardinality(ValidAt(list)) |->
        AtomLine(Unwrap(list[(CHOOSE i \in ValidAt(list) : ValidBelow(list, i) = k - 1) + 1]))]

\* one entry per present valid atom: its index to the count below it
EntryPerValidAtom(list) == {<<i, ValidBelow(list, i)>> : i \in ValidAt(list)}

\* C20: the export of a structure writes the structure file with the count
\* of, and one atom line for, each present atom with a valid element, in
\* sparse-index order, and the atom map with one entry for each such atom,
\* from its sparse index to the number of such atoms below it; holes and
\* atoms of an invalid element are in neither.  [C, hole, O, invalid, H]
\* gives 3 atom lines and the map {0:0, 2:1, 4:2}.
C20_ExportLinesAndMap ==
    /\ atomOp.op = "output_xyz" =>
         /\ atomOp.out = Some(Ok(NoneOut))
         /\ DOMAIN outFiles = {"dir/out.xyz", "dir/out.atommap.json"}
         /\ outFiles["dir/out.xyz"].text =
                XyzContent(atomOp.arg.prefix, atomOp.arg.suffix, "out",
                           LinePerValidAtom(atoms))
         /\ outFiles["dir/out.atommap.json"].map = EntryPerValidAtom(atoms)
         /\ atoms = ExampleList =>
              /\ Len(XyzLines(atoms)) = 3
              /\ outFiles["dir/out.atommap.json"].map = {<<0, 0>>, <<2, 1>>, <<4, 2>>}
    /\ atomOp.op = "atom_map" => atomOp.out = Some(EntryPerValidAtom(atoms))

\* the example list has been exported
C20_Witness ==
    /\ atomOp.op = "output_xyz"
    /\ atoms = ExampleList
    /\ outFiles["dir/out.xyz"].text = "3\nout\nC 0 0 0\nO 1 0 0\nH 3 0 0\n"
    /\ outFiles["dir/out.atommap.json"].map = {<<0, 0>>, <<2, 1>>, <<4, 2>>}

-----------------------------------------------------------------------------
(* Properties of single steps and of the workflow without steps *)

\* C21: a run over no steps ends with the WorkflowData it started with: one
\* stack, the empty path; one named window, base = 0..1; the cursor window
\* 0..1; no layers; the base of the input.
C21_EmptyWorkflow ==
    (pc.at = "finished" /\ Len(input.steps) = 0) =>
        /\ workflow_data.stacks = << << >> >>
        /\ DOMAIN workflow_data.windows = {"base"}
        /\ workflow_data.windows["base"] = Range(0, 1)
        /\ workflow_data.current_window = Range(0, 1)
        /\ workflow_data.layers = << >>
        /\ workflow_data.base = input.base

\* a run over no steps has finished
C21_Witness ==
    /\ pc.at = "finished"
    /\ input.steps = << >>
    /\ workflow_data.base = BaseMolecule

\* C22: no failed materialization is kept: every entry of the stack cache
\* is an Ok structure, so a path that failed is computed again, against the
\* layer storage as it then is, when it is next read.
C22_ErrorsNotCached ==
    \A k \in DOMAIN cache : cache[k].ok

\* The last step succeeded and its runner returned a Named output
LastNamed ==
    /\ IsSome(hist.last)
    /\ LastRan.ok
    /\ LastFrom.ok
    /\ LastWindow.ok
    /\ LastOutput.res.ok
    /\ LastOutput.res.val.kind = "Named"

\* the indexes of the stacks array a window covers
WindowIndexes(range) == range.start..(range.end - 1)

RECURSIVE SumOfSizes(_)
SumOfSizes(groups) ==
    IF Len(groups) = 0 THEN 0
    ELSE Len(Head(groups).stacks) + SumOfSizes(Tail(groups))

LastFromUnbound ==
    /\ IsSome(hist.last)
    /\ IsSome(LastStepOf.from)
    /\ Unwrap(LastStepOf.from) \notin DOMAIN LastRan.wd.windows

\* C24: a step whose `from` names a window that is not bound fails with the
\* window-not-found error; its runner has not run (no layer, no cache entry
\* and no output file is new) and the WorkflowData, stacks, named windows,
\* cursor window and layer storage, is as it was before the step.
C24_UnboundFromFails ==
    LastFromUnbound =>
        /\ ~LastRan.ok
        /\ StepExecute(LastStepOf, LastRan.idx, LastRan.wd, LastRan.cache,
                       LastRan.files, LastRan.command_ok).res
              = Err(Error("WindowNotFound", 0, Unwrap(LastStepOf.from)))
        /\ LastRan.post = LastRan.wd
        /\ workflow_data = LastRan.wd
        /\ cache = LastRan.cache
        /\ outFiles = LastRan.files
        /\ pc.at = "failed"

\* the second step of a workflow, an export from the window a, failed for
\* want of that window after a first step that had produced stacks
C24_Witness ==
    /\ LastFromUnbound
    /\ LastRan.idx = 1
    /\ LastStepOf.run.run = "OutputXYZ"
    /\ Len(workflow_data.stacks) > 1
    /\ DOMAIN outFiles = {}
    /\ pc.at = "failed"

\* The last step succeeded and its runner returned the output None
LastNone ==
    /\ IsSome(hist.last)
    /\ LastRan.ok
    /\ LastFrom.ok
    /\ LastWindow.ok
    /\ LastOutput.res.ok
    /\ LastOutput.res.val.kind = "None"

\* C25: a step whose runner returns the output None (OutputXYZ) leaves the
\* stacks and the layer storage as they were and the cursor window as the
\* runner found it, that is windows[from] when `from` is set; a `name` of
\* the step is bound to this cursor window, and no other window changes.
C25_NoneKeepsCursor ==
    LastNone =>
        /\ LastRan.post.stacks = LastRan.wd.stacks
        /\ LastRan.post.layers = LastRan.wd.layers
        /\ LastOutput.layers = LastRan.wd.layers
        /\ LastRan.post.current_window = LastFrom.val.current_window
        /\ IsSome(LastStepOf.name) =>
              /\ Unwrap(LastStepOf.name) \in DOMAIN LastRan.post.windows
              /\ LastRan.post.windows[Unwrap(LastStepOf.name)]
                    = LastFrom.val.current_window
        /\ \A n \in DOMAIN LastRan.wd.windows \cup DOMAIN LastRan.post.windows :
              LastStepOf.name # Some(n) =>
                  /\ n \in DOMAIN LastRan.wd.windows
                  /\ n \in DOMAIN LastRan.post.windows
                  /\ LastRan.post.windows[n] = LastRan.wd.windows[n]

\* the export step named x ran from the window a of one stack of two layers
\* and wrote its files: x is bound to the window a
C25_Witness ==
    /\ LastNone
    /\ LastStepOf.run.run = "OutputXYZ"
    /\ LastStepOf.name = Some("x")
    /\ "x" \notin DOMAIN LastRan.wd.windows
    /\ LastRan.post.windows["x"] = LastRan.wd.windows["a"]
    /\ LastRan.post.windows["x"] # LastRan.wd.windows["base"]
    /\ DOMAIN outFiles # {}

-----------------------------------------------------------------------------
(* The layer an attachment returns: substituent.rs.  The fragments of the  *)
(* attachment above and two whose on_body atom is named by an id.          *)

\* C with two H, bonded with the orders 1 and 2, the C under the id b
SubById ==
    Substituent(SelIndex(1), SelId("b"),
        Molecule(<<Carbon(<<0, 0, 0>>), Hydrogen(<<1, 0, 0>>), Hydrogen(<<0, 1, 0>>)>>,
                 SetBond(SetBond(BondNew(3), 0, 1, Some(1)), 0, 2, Some(2)),
                 Some({<<"b", 0>>}), Some({<<"body", 2>>}), "id"),
        "Id")
\* O-H, the O under the id b
SubByIdShort ==
    Substituent(SelIndex(1), SelId("b"),
        Molecule(<<Oxygen(<<0, 0, 0>>), Hydrogen(<<1, 0, 0>>)>>,
                 SetBond(BondNew(2), 0, 1, Some(1)),
                 Some({<<"b", 0>>}), Some({}), "ids"),
        "Ids")

WireSubstituents == AttachSubstituents \cup {SubById, SubByIdShort}

InitWire ==
    /\ atoms = << >>
    /\ matrix = << >>
    /\ molecule \in AttachTargets
    /\ atomOp = NoAtomOp
    /\ tempDir = None
    /\ DriverIdle

\* substituent.generate_layer(target, entry, exit)
Wire ==
    /\ atomOp = NoAtomOp
    /\ \E s \in WireSubstituents, entry \in AttachSelectors, exit \in AttachSelectors :
         atomOp' = AtomOp("generate_layer",
                          [s |-> s, entry |-> entry, exit |-> exit],
                          GenerateLayer(s, molecule, entry, exit))
    /\ UNCHANGED <<atoms, matrix, molecule, tempDir, runVars>>

NextWire == Wire

SpecWire == InitWire /\ [][NextWire]_vars

\* an attachment returned a layer
Attached == atomOp.op = "generate_layer" /\ atomOp.out.ok

\* the length of the target, the sparse indexes of the entry atom in the
\* target and of the direction and on_body atoms in the substituent
TargetLen == Len(molecule.atoms)
EntryIndex == Unwrap(SelToIndex(atomOp.arg.entry, molecule))
DirectionIndex == Unwrap(SelToIndex(atomOp.arg.s.direction, atomOp.arg.s.structure))
OnBodyIndex == Unwrap(SelToIndex(atomOp.arg.s.on_body, atomOp.arg.s.structure))

\* the bonds of the substituent offset by the length of the target
OffsetBonds == MolOffset(atomOp.arg.s.structure, TargetLen).bonds

\* C26: in the layer an attachment returns, the bond read at (entry index,
\* j) is, for every sparse index j, the bond the offset substituent has
\* between its on_body atom, at its index after the offset, and j, of the
\* same order, and the bond read at (j, entry index) is the same.
C26_WiringCopiesBonds ==
    Attached =>
        \A j \in 0..(Len(atomOp.out.val.atoms) - 1) :
            /\ ReadBond(atomOp.out.val.bonds, EntryIndex, j)
                  = ReadBond(OffsetBonds, OnBodyIndex + TargetLen, j)
            /\ ReadBond(atomOp.out.val.bonds, j, EntryIndex)
                  = ReadBond(OffsetBonds, OnBodyIndex + TargetLen, j)

\* the indexes of the substituent other than its direction and on_body atoms
OtherIndexes ==
    (0..(Len(atomOp.arg.s.structure.atoms) - 1)) \ {DirectionIndex, OnBodyIndex}

\* the groups of the substituent
OriginalGroups ==
    IF IsSome(atomOp.arg.s.structure.groups) THEN Unwrap(atomOp.arg.s.structure.groups)
    ELSE {}

\* C27: the layer an attachment returns, for a target of length T, has
\* holes at T + the direction index and T + the on_body index; every other
\* cell of the substituent, atom or hole, at its index plus T with its
\* element; below T one atom only, the on_body atom at the entry index;
\* every group under the name of the substituent, "_" and its own name, at
\* its indexes plus T; no ids; and the title of the target, "_" and the name
\* of the substituent.
C27_ReturnedLayer ==
    Attached =>
        LET out == atomOp.out.val
            s == atomOp.arg.s
            T == TargetLen
        IN  /\ Len(out.atoms) = T + Len(s.structure.atoms)
            /\ ReadAtom(out.atoms, T + DirectionIndex) = None
            /\ ReadAtom(out.atoms, T + OnBodyIndex) = None
            /\ \A i \in OtherIndexes :
                  /\ IsSome(ReadAtom(out.atoms, T + i)) = IsSome(s.structure.atoms[i + 1])
                  /\ IsSome(s.structure.atoms[i + 1]) =>
                        Unwrap(ReadAtom(out.atoms, T + i)).element
                           = Unwrap(s.structure.atoms[i + 1]).element
            /\ \A i \in 0..(T - 1) : IsSome(ReadAtom(out.atoms, i)) <=> i = EntryIndex
            /\ Unwrap(ReadAtom(out.atoms, EntryIndex)).element
                  = Unwrap(s.structure.atoms[OnBodyIndex + 1]).element
            /\ out.groups
                  = Some({<<s.substituent_name \o "_" \o g[1], g[2] + T>> : g \in OriginalGroups})
            /\ out.ids = Some({})
            /\ out.title = molecule.title \o "_" \o s.substituent_name

\* the fragment Me, C with two H and the group body, was attached at the C
\* of the base towards its H
C27_Witness ==
    /\ Attached
    /\ molecule = BaseMolecule
    /\ atomOp.arg.s = SubMe
    /\ atomOp.arg.entry = SelIndex(0)
    /\ atomOp.arg.exit = SelIndex(1)
    /\ atomOp.out.val.groups = Some({<<"Me_body", 4>>})
    /\ atomOp.out.val.title = "m_Me"
    /\ IsSome(ReadAtom(atomOp.out.val.atoms, 4))
    /\ ReadAtom(atomOp.out.val.atoms, 1) = None

\* the lines of the structure file: the prefix unless it is empty, the
\* count of the atom lines, the title, the atom lines, the suffix unless it
\* is empty
ContentLines(prefix, suffix, title, xyz) ==
    (IF prefix # "" THEN <<prefix>> ELSE << >>)
    \o <<ToString(Len(xyz)), title>> \o xyz
    \o (IF suffix # "" THEN <<suffix>> ELSE << >>)

\* C28: the content of an exported structure file is its lines joined by
\* line breaks: the prefix only when it is not empty, the atom count, the
\* title, one line per exported atom, the suffix only when it is not empty;
\* an empty prefix or suffix adds neither a line nor a line break.
C28_ContentLines ==
    atomOp.op = "output_xyz" =>
        outFiles["dir/out.xyz"].text
            = JoinStrings(ContentLines(atomOp.arg.prefix, atomOp.arg.suffix, "out",
                                       LinePerValidAtom(atoms)), "\n")

-----------------------------------------------------------------------------
(* Runner::OutputXYZ over windows of several stacks, in an output          *)
(* directory that may hold files already: workflow/runner.rs               *)

\* a file that was in the output directory before the export
OldFile == FileOf("old", {<<9, 9>>})

\* the directories the export finds: any of the structure file, its atom
\* map and a file of another name may exist
ExportDirs ==
    {[p \in names |-> OldFile] :
        names \in SUBSET {"dir/out.xyz", "dir/out.atommap.json", "dir/other.xyz"}}

\* the windows exported: no stack, the base, the stack of layer 0, both
ExportWindows == {<< >>, << << >> >>, << <<0>> >>, << << >>, <<0>> >>, << <<0>>, << >> >>}

\* the layer storage: layer 0 puts an O in the third cell
ExportLayers == <<SetAtom(2, Oxygen(<<0, 0, 1>>))>>

InitExportPaths ==
    /\ atoms \in SeqsUpTo(AtomCells, MaxAtoms - 1)
    /\ matrix = << >>
    /\ molecule = MolDefault
    /\ atomOp = NoAtomOp
    /\ tempDir = None
    /\ input = WorkflowInput(MolDefault, << >>, FALSE)
    /\ skipFile = None
    /\ dataFile = None
    /\ outFiles \in ExportDirs
    /\ pc = At("idle", "")
    /\ index = 0
    /\ workflow_data = NoData
    /\ checkpoint = NoCheckpoint
    /\ cache = EmptyCache
    /\ hist = HistInit

\* Runner::OutputXYZ executed on a window, the base holding the atoms and
\* titled "out"; no layer changes the title, so every stack has the paths
\* dir/out.xyz and dir/out.atommap.json
ExportWindow ==
    /\ atomOp = NoAtomOp
    /\ \E window \in ExportWindows :
         \E ran \in {RunnerExecute(RunOutputXYZ("", "", "dir", "xyz"),
                                   Molecule(atoms, BondNew(Len(atoms)), None, None, "out"),
                                   window, ExportLayers, EmptyCache, outFiles, TRUE)} :
           /\ atomOp' = AtomOp("output_window", [window |-> window, files |-> outFiles],
                               ran.res)
           /\ outFiles' = ran.files
    /\ UNCHANGED <<atoms, matrix, molecule, tempDir, input, skipFile, dataFile,
                   pc, index, workflow_data, checkpoint, cache, hist>>

NextExportPaths == ExportWindow

SpecExportPaths == InitExportPaths /\ [][NextExportPaths]_vars

\* the structure the export reads for a stack of the window
ExportedStructure(stack_path) ==
    Materialize(Molecule(atoms, BondNew(Len(atoms)), None, None, "out"),
                ExportLayers, stack_path).val

\* two stacks of the window have the same paths, or one of the two paths of
\* a stack exists already
PathsCollide ==
    \/ Len(atomOp.arg.window) >= 2
    \/ /\ Len(atomOp.arg.window) >= 1
       /\ \/ "dir/out.xyz" \in DOMAIN atomOp.arg.files
          \/ "dir/out.atommap.json" \in DOMAIN atomOp.arg.files

\* C29: an export in which two stacks of the window have the same output
\* path, or in which the structure file or the atom map of a stack exists
\* already, fails with the file-write error, and every file that existed is
\* there with the content it had; a file the export wrote for an earlier
\* stack is likewise not written again.  Without such a collision the export
\* succeeds.
C29_CollisionsFail ==
    atomOp.op = "output_window" =>
        /\ \A p \in DOMAIN atomOp.arg.files :
              p \in DOMAIN outFiles /\ outFiles[p] = atomOp.arg.files[p]
        /\ PathsCollide <=> ~atomOp.out.ok
        /\ ~atomOp.out.ok =>
              /\ atomOp.out.err.kind = "FileWriteError"
              /\ atomOp.out.err.cause \in {"dir/out.xyz", "dir/out.atommap.json"}
        /\ ("dir/out.xyz" \in DOMAIN outFiles \ DOMAIN atomOp.arg.files) =>
              outFiles["dir/out.xyz"].text
                 = XyzContent("", "", "out",
                              XyzLines(ExportedStructure(atomOp.arg.window[1]).atoms))

\* the base and the stack of layer 0 were exported into an empty directory:
\* the files of the base are written, the export failed at the structure
\* file of the second stack and left the file of the base as it was
C29_Witness ==
    /\ atomOp.op = "output_window"
    /\ atomOp.arg.window = << << >>, <<0>> >>
    /\ DOMAIN atomOp.arg.files = {}
    /\ atomOp.out = Err(Error("FileWriteError", 0, "dir/out.xyz"))
    /\ DOMAIN outFiles = {"dir/out.xyz", "dir/out.atommap.json"}
    /\ outFiles["dir/out.xyz"].text = "0\nout\n"

\* C30: from_continuous_index inverts to_continuous_index for every k: when
\* L.from_continuous_index(k) is Some(i), the atom at i is present and valid
\* and L.to_continuous_index(i) is Some(k); and it is None when L has k or
\* fewer present and valid atoms.
C30_FromInvertsTo ==
    atomOp.op = "from_continuous_index" =>
        /\ IsSome(atomOp.out) =>
              /\ PresentValid(ReadAtom(atoms, Unwrap(atomOp.out)))
              /\ ToContinuousIndex(atoms, Unwrap(atomOp.out)) = Some(atomOp.arg)
        /\ Cardinality(ValidAt(atoms)) <= atomOp.arg => atomOp.out = None

-----------------------------------------------------------------------------
(* The parallel read of a window: workflow/runner.rs.  into_par_iter()      *)
(* hands each stack path of the window to a worker of the thread pool; the  *)
(* workers call cached_read_stack on the one cache.  #[cached] expands to   *)
(*     { let mut cache = CACHE.lock().unwrap();                             *)
(*       if let Some(result) = cache.cache_get(&key) { return result } }    *)
(*     let result = body;                                                   *)
(*     let mut cache = CACHE.lock().unwrap();                               *)
(*     cache.cache_set(key, result.clone());  result                        *)
(* Here pc is [lock, threads]: lock is the worker that holds the mutex of   *)
(* the cache (0: nobody), threads[w] is worker w's stack of calls of        *)
(* cached_read_stack, innermost last, and what its outermost call returned. *)
(* workflow_data holds the base, the layers and the window; atomOp, the     *)
(* error collect() saved first and the value it returned.                   *)

MaxWorkers == 2

\* layers 0, 1, 2: an atom at index 2, a group over 0..=2, a group over 0..=5
ParStorage == <<SetAtom(2, Oxygen(<<0, 0, 1>>)), GroupMap("g", 2), GroupMap("h", 5)>>

\* stack paths: one layer, two layers over it, a filter that fails below,
\* a layer that is not stored
ParPaths == {<<0>>, <<0, 1>>, <<1, 0>>, <<3>>}

\* the cache as earlier steps of the workflow left it
ParCaches ==
    {EmptyCache, CachedReadStack(EmptyCache, BaseMolecule, ParStorage, <<0>>).cache}

\* one call of cached_read_stack: its stack_path, where it is, and the
\* result of its body once there is one
Frame(stack_path, at, result) == [stack_path |-> stack_path, at |-> at, result |-> result]
Thread(stack, ret) == [stack |-> stack, ret |-> ret]

\* the MutexGuard at the end of the block of the lookup: dropped
GuardKept(w) == w
GuardDropped(w) == 0

\* ended is the order in which the workers ended (not read by the program)
ParRead(window, saved, out) ==
    [op |-> "par_read", arg |-> window, saved |-> saved, ended |-> << >>, out |-> out]

InitPar ==
    /\ atoms = << >>
    /\ matrix = << >>
    /\ molecule = MolDefault
    /\ tempDir = None
    /\ input = WorkflowInput(MolDefault, << >>, FALSE)
    /\ skipFile = None
    /\ dataFile = None
    /\ outFiles = [p \in {} |-> FileOf("", {})]
    /\ index = 0
    /\ checkpoint = NoCheckpoint
    /\ hist = HistInit
    /\ cache \in ParCaches
    /\ \E window \in SeqsUpTo(ParPaths, MaxWorkers) \ {<< >>} :
         /\ workflow_data = [base |-> BaseMolecule, layers |-> ParStorage, stacks |-> window,
                             windows |-> [n \in {"base"} |-> Range(0, Len(window))],
                             current_window |-> Range(0, Len(window))]
         /\ atomOp = ParRead(window, None, None)
         /\ pc = [lock |-> 0,
                  threads |-> [w \in 1..Len(window) |->
                                  Thread(<<Frame(window[w], "lookup", None)>>, None)]]

Workers == DOMAIN pc.threads
TopFrame(w) == pc.threads[w].stack[Len(pc.threads[w].stack)]
Callers(w) == SubSeq(pc.threads[w].stack, 1, Len(pc.threads[w].stack) - 1)
PathHeads(stack_path) == SubSeq(stack_path, 1, Len(stack_path) - 1)
LastOf(stack_path) == stack_path[Len(stack_path)]

\* the worker's stack once its innermost call is at `at` with `result`
WithTop(w, at, result) == Callers(w) \o <<Frame(TopFrame(w).stack_path, at, result)>>

\* the caller resumes with what the inner call returned:
\* let lower_result = cached_read_stack(..)?; layer.filter(lower_result).map_err(..)
Resume(caller, result) ==
    Frame(caller.stack_path, "store",
          Some(FilterLower(Unwrap(ReadLayer(workflow_data.layers, LastOf(caller.stack_path))),
                           [res |-> result, cache |-> cache]).res))

\* the collect() of Result<Vec<_>, _> keeps the error it is given first
SaveError(saved, result) ==
    IF result.ok \/ IsSome(saved) THEN saved ELSE Some(result.err)

\* the innermost call of worker w returns result: to its caller, or, from
\* the outermost call, to the collect()
Returns(w, result, lock) ==
    IF Len(pc.threads[w].stack) = 1
    THEN /\ pc' = [lock |-> lock,
                   threads |-> [pc.threads EXCEPT ![w] = Thread(<< >>, Some(result))]]
         /\ atomOp' = [atomOp EXCEPT !.saved = SaveError(@, result),
                                     !.ended = Append(@, w)]
    ELSE /\ pc' = [lock |-> lock,
                   threads |-> [pc.threads EXCEPT ![w].stack =
                       SubSeq(@, 1, Len(@) - 2) \o <<Resume(@[Len(@) - 1], result)>>]]
         /\ UNCHANGED atomOp

\* the body of cached_read_stack up to its inner call or its result
Body(w, lock) ==
    IF Len(TopFrame(w).stack_path) = 0
    THEN pc' = [lock |-> lock,
                threads |-> [pc.threads EXCEPT ![w].stack =
                                WithTop(w, "store", Some(Ok(workflow_data.base)))]]
    ELSE IF ~IsSome(ReadLayer(workflow_data.layers, LastOf(TopFrame(w).stack_path)))
    THEN pc' = [lock |-> lock,
                threads |-> [pc.threads EXCEPT ![w].stack =
                    WithTop(w, "store",
                            Some(Err(NoSuchLayer(LastOf(TopFrame(w).stack_path)))))]]
    ELSE pc' = [lock |-> lock,
                threads |-> [pc.threads EXCEPT ![w].stack =
                    WithTop(w, "wait", None)
                    \o <<Frame(PathHeads(TopFrame(w).stack_path), "lookup", None)>>]]

\* CACHE.lock().unwrap(): the worker waits until nobody holds the mutex
ParLock(w) ==
    /\ Len(pc.threads[w].stack) > 0
    /\ TopFrame(w).at \in {"lookup", "store"}
    /\ pc.lock = 0
    /\ pc' = [lock |-> w,
              threads |-> [pc.threads EXCEPT ![w].stack =
                  WithTop(w, IF TopFrame(w).at = "lookup" THEN "locked_lookup"
                             ELSE "locked_store", TopFrame(w).result)]]
    /\ UNCHANGED <<atoms, matrix, molecule, atomOp, tempDir, input, skipFile, dataFile,
                   outFiles, index, workflow_data, checkpoint, cache, hist>>

\* cache.cache_get(&key) under the lock: the stored Result is returned, or
\* the guard is dropped and the body runs
ParGet(w) ==
    /\ Len(pc.threads[w].stack) > 0
    /\ TopFrame(w).at = "locked_lookup"
    /\ IF StackKey(TopFrame(w).stack_path) \in DOMAIN cache
       THEN Returns(w, cache[StackKey(TopFrame(w).stack_path)], 0)
       ELSE Body(w, GuardDropped(w)) /\ UNCHANGED atomOp
    /\ UNCHANGED <<atoms, matrix, molecule, tempDir, input, skipFile, dataFile,
                   outFiles, index, workflow_data, checkpoint, cache, hist>>

\* cache.cache_set(key, result.clone()) under the lock; result
ParSet(w) ==
    /\ Len(pc.threads[w].stack) > 0
    /\ TopFrame(w).at = "locked_store"
    /\ cache' = CacheSet(cache, StackKey(TopFrame(w).stack_path), Unwrap(TopFrame(w).result))
    /\ Returns(w, Unwrap(TopFrame(w).result), 0)
    /\ UNCHANGED <<atoms, matrix, molecule, tempDir, input, skipFile, dataFile,
                   outFiles, index, workflow_data, checkpoint, hist>>

WorkerStarted(w) == pc.threads[w].stack # <<Frame(atomOp.arg[w], "lookup", None)>>
WorkerEnded(w) == pc.threads[w].stack = << >>

\* once an error is saved, the collect() takes no item that has not started
ParSkip(w) ==
    /\ ~WorkerStarted(w)
    /\ IsSome(atomOp.saved)
    /\ pc' = [pc EXCEPT !.threads[w] = Thread(<< >>, None)]
    /\ UNCHANGED <<atoms, matrix, molecule, atomOp, tempDir, input, skipFile, dataFile,
                   outFiles, index, workflow_data, checkpoint, cache, hist>>

\* .collect::<Result<Vec<_>, _>>(): the saved error, or the values in the
\* order of the window
ParCollect ==
    /\ \A w \in Workers : WorkerEnded(w)
    /\ atomOp.out = None
    /\ atomOp' = [atomOp EXCEPT !.out =
           Some(IF IsSome(atomOp.saved) THEN Err(Unwrap(atomOp.saved))
                ELSE Ok([w \in Workers |-> Unwrap(pc.threads[w].ret).val]))]
    /\ UNCHANGED <<atoms, matrix, molecule, tempDir, input, skipFile, dataFile,
                   outFiles, pc, index, workflow_data, checkpoint, cache, hist>>

NextPar ==
    \/ \E w \in Workers : ParLock(w)
    \/ \E w \in Workers : ParGet(w)
    \/ \E w \in Workers : ParSet(w)
    \/ \E w \in Workers : ParSkip(w)
    \/ ParCollect

\* a worker that can take a step takes it: the pool runs every item it has
\* taken, and a mutex that is free is given to one of those waiting for it
SpecPar == InitPar /\ [][NextPar]_vars /\ WF_vars(NextPar)

\* what a sequential materialization of the path returns
Sequential(stack_path) ==
    CachedReadStack(EmptyCache, workflow_data.base, workflow_data.layers, stack_path).res

ParSafe ==
    /\ \A w \in Workers :
         IsSome(pc.threads[w].ret) => Unwrap(pc.threads[w].ret) = Sequential(atomOp.arg[w])
    /\ IsSome(atomOp.out) /\ Unwrap(atomOp.out).ok =>
         Unwrap(atomOp.out).val = [w \in Workers |-> Sequential(atomOp.arg[w]).val]
    /\ IsSome(atomOp.out) /\ ~Unwrap(atomOp.out).ok =>
         \E w \in Workers : Sequential(atomOp.arg[w]) = Unwrap(atomOp.out)

\* C31: when the stacks of a window are read by parallel workers that share
\* the cache, every interleaving ends with the collect() returning; each
\* worker that ran has the value a sequential materialization of its path
\* gives; and the values collected are those of the paths in window order.
C31_ParallelRead == [](atomOp.op = "par_read" => ParSafe) /\ <>(IsSome(atomOp.out))

\* two workers have both returned Ok, the second of the window before the
\* first, and the values are collected
C31_Witness ==
    /\ atomOp.op = "par_read"
    /\ IsSome(atomOp.out) /\ Unwrap(atomOp.out).ok
    /\ atomOp.ended = <<2, 1>>
    /\ atomOp.arg[1] # atomOp.arg[2]

-----------------------------------------------------------------------------
(* The driver started again after lme_workflow.inp.yaml was edited: the    *)
(* checkpoint files of the runs before the edit are still in the directory. *)

\* Before the driver that was started reads the input file (main, line 18),
\* somebody has set no_checkpoint: true in it
SetNoCheckpoint ==
    /\ pc.at = "start"
    /\ ~input.no_checkpoint
    /\ input' = [input EXCEPT !.no_checkpoint = TRUE]
    /\ UNCHANGED <<atomVars, diskVars, procVars, hist>>

NextEdit ==
    \/ NextRun
    \/ SetNoCheckpoint

SpecEdit == InitRun /\ [][NextEdit]_vars

Dumping == {"dump_skip_create", "dump_skip_write", "dump_data_create", "dump_data_write"}

\* the loop of this run has not executed a step yet
AtLoopStart == pc.at = "loop" /\ hist.executed = << >>

\* with no_checkpoint set the run never is in dump_checkpoint
NoCheckpointWritesNone == input.no_checkpoint => pc.at \notin Dumping

\* C32: with no_checkpoint set the run ignores checkpoints entirely: its
\* loop starts at step 0 from WorkflowData::new(input.base) whatever
\* checkpoint files exist, and it never writes a checkpoint file.
C32_NoCheckpointIgnoresFiles ==
    /\ NoCheckpointWritesNone
    /\ input.no_checkpoint /\ AtLoopStart =>
           index = 0 /\ workflow_data = WorkflowDataNew(input.base)

-----------------------------------------------------------------------------
(* The step loader: workflow/src/step.rs.  A path is absolute or relative   *)
(* and has components; a directory is the sequence of its components from   *)
(* the root.  Here input is [loaders, dirs, files]: the entries of the      *)
(* steps list being deserialized, the directories that exist and the step   *)
(* files by absolute path; pc is [at, cwd, steps]: where the                *)
(* deserialization is, the working directory of the process and the steps   *)
(* collected; index is the entry the loop of TryFrom<StepsLoader> is at;    *)
(* atomOp is the last entry converted, the working directory before and     *)
(* the Result.                                                              *)

MaxLoaders == 2

Path(abs, parts) == [abs |-> abs, parts |-> parts]

\* Path::parent: None for the empty path and for the root
PathParent(path) ==
    IF Len(path.parts) = 0 THEN None
    ELSE Some(Path(path.abs, SubSeq(path.parts, 1, Len(path.parts) - 1)))

\* the components without "."
RECURSIVE WithoutDots(_)
WithoutDots(parts) ==
    IF Len(parts) = 0 THEN << >>
    ELSE IF Head(parts) = "." THEN WithoutDots(Tail(parts))
    ELSE <<Head(parts)>> \o WithoutDots(Tail(parts))

\* what the system resolves a path to: verbatim when absolute, else
\* against the working directory
Resolve(cwd, path) == IF path.abs THEN WithoutDots(path.parts) ELSE cwd \o WithoutDots(path.parts)

\* std::env::set_current_dir: the empty path and a directory that does not
\* exist are errors
SetCurrentDir(dirs, cwd, path) ==
    IF ~path.abs /\ Len(path.parts) = 0 THEN Err("ENOENT")
    ELSE IF Resolve(cwd, path) \in dirs THEN Ok(Resolve(cwd, path))
    ELSE Err("ENOENT")

\* File::open
FileOpen(files, cwd, path) ==
    IF Len(path.parts) > 0 /\ Resolve(cwd, path) \in DOMAIN files
    THEN Some(files[Resolve(cwd, path)]) ELSE None

\* StepLoader::Data(step), StepLoader::Loader(filepath)
LoaderData(step) == [loader |-> "Data", step |-> step, filepath |-> Path(FALSE, << >>)]
LoaderPath(filepath) == [loader |-> "Loader", step |-> "", filepath |-> filepath]

\* a conversion's Result and the working directory it leaves
Loaded(res, cwd) == [res |-> res, cwd |-> cwd]

\* impl TryFrom<StepLoader> for Steps, and impl TryFrom<StepsLoader> for
\* Steps on the entries from `at` on, with the steps collected so far
RECURSIVE StepTryFrom(_, _, _, _)
RECURSIVE StepsTryFrom(_, _, _, _, _, _)
RECURSIVE FromReader(_, _, _, _, _)
RECURSIVE StepsNext(_, _, _, _, _, _)

\* serde_yaml::from_reader(file)?, then set_current_dir(&current_directory)?
FromReader(dirs, files, current_directory, cwd, content) ==
    IF ~IsSome(content.parsed) THEN Loaded(Err("serde_yaml"), cwd)
    ELSE LET result == StepsTryFrom(dirs, files, cwd, Unwrap(content.parsed), 1, << >>)
         IN  IF ~result.res.ok THEN result
             ELSE Loaded(result.res, current_directory)

StepTryFrom(dirs, files, cwd, value) ==
    IF value.loader = "Data" THEN Loaded(Ok(<<value.step>>), cwd)
    ELSE IF ~IsSome(PathParent(value.filepath)) THEN Loaded(Err("parent"), cwd)
    ELSE IF ~IsSome(FileOpen(files, cwd, value.filepath)) THEN Loaded(Err("open"), cwd)
    ELSE IF ~SetCurrentDir(dirs, cwd, Unwrap(PathParent(value.filepath))).ok
    THEN Loaded(Err("set_current_dir"), cwd)
    ELSE FromReader(dirs, files, cwd,
                    SetCurrentDir(dirs, cwd, Unwrap(PathParent(value.filepath))).val,
                    Unwrap(FileOpen(files, cwd, value.filepath)))

StepsNext(dirs, files, one, value, at, inner) ==
    IF ~one.res.ok THEN one
    ELSE StepsTryFrom(dirs, files, one.cwd, value, at + 1, inner \o one.res.val)

StepsTryFrom(dirs, files, cwd, value, at, inner) ==
    IF at > Len(value) THEN Loaded(Ok(inner), cwd)
    ELSE StepsNext(dirs, files, StepTryFrom(dirs, files, cwd, value[at]), value, at, inner)

\* the directories: /, /w (where the driver is started) and /w/sub
LoadDirs == {<< >>, <<"w">>, <<"w", "sub">>}
StartDir == <<"w">>

\* a step file: text that does not deserialize, or a list of entries
StepFile(entries) == [parsed |-> Some(entries)]
BrokenFile == [parsed |-> None]

InnerFiles == {None, Some(BrokenFile), Some(StepFile(<<LoaderData("i")>>))}
SubFiles ==
    {None, Some(BrokenFile), Some(StepFile(<<LoaderData("s")>>)),
     Some(StepFile(<<LoaderPath(Path(FALSE, <<".", "inner.yaml">>)), LoaderData("s")>>))}

FilesOf(sub, inner) ==
    [p \in (IF IsSome(sub) THEN {<<"w", "sub", "steps.yaml">>} ELSE {})
           \cup (IF IsSome(inner) THEN {<<"w", "sub", "inner.yaml">>} ELSE {})
           \cup {<<"w", "top.yaml">>} |->
        IF p = <<"w", "sub", "steps.yaml">> THEN Unwrap(sub)
        ELSE IF p = <<"w", "sub", "inner.yaml">> THEN Unwrap(inner)
        ELSE StepFile(<<LoaderData("t")>>)]

LoaderMenu ==
    {LoaderData("a"),
     LoaderPath(Path(FALSE, <<"sub", "steps.yaml">>)),
     LoaderPath(Path(TRUE, <<"w", "sub", "steps.yaml">>)),
     LoaderPath(Path(FALSE, <<".", "top.yaml">>)),
     LoaderPath(Path(FALSE, <<"top.yaml">>)),
     LoaderPath(Path(FALSE, <<"none", "steps.yaml">>)),
     LoaderPath(Path(FALSE, << >>))}

Converted(value, before, out) == [op |-> "try_from", arg |-> value, before |-> before, out |-> out]

InitLoad ==
    /\ atoms = << >>
    /\ matrix = << >>
    /\ molecule = MolDefault
    /\ atomOp = NoAtomOp
    /\ tempDir = None
    /\ input \in {[loaders |-> loaders, dirs |-> LoadDirs, files |-> FilesOf(sub, inner)] :
                     loaders \in SeqsUpTo(LoaderMenu, MaxLoaders),
                     sub \in SubFiles, inner \in InnerFiles}
    /\ skipFile = None
    /\ dataFile = None
    /\ outFiles = [p \in {} |-> FileOf("", {})]
    /\ pc = [at |-> "steps", cwd |-> StartDir, steps |-> << >>]
    /\ index = 0
    /\ workflow_data = NoData
    /\ checkpoint = NoCheckpoint
    /\ cache = EmptyCache
    /\ hist = HistInit

\* TryFrom<StepsLoader>: let Steps(result) = Steps::try_from(loader)?;
\* inner.extend(result)
LoadStep ==
    /\ pc.at = "steps"
    /\ index < Len(input.loaders)
    /\ \E one \in {StepTryFrom(input.dirs, input.files, pc.cwd, input.loaders[index + 1])} :
         /\ atomOp' = Converted(input.loaders[index + 1], pc.cwd, one.res)
         /\ pc' = IF one.res.ok
                  THEN [at |-> "steps", cwd |-> one.cwd, steps |-> pc.steps \o one.res.val]
                  ELSE [at |-> "failed", cwd |-> one.cwd, steps |-> pc.steps]
         /\ index' = IF one.res.ok THEN index + 1 ELSE index
    /\ UNCHANGED <<atoms, matrix, molecule, tempDir, input, skipFile, dataFile, outFiles,
                   workflow_data, checkpoint, cache, hist>>

\* TryFrom<StepsLoader>: Ok(Steps(inner))
LoadEnd ==
    /\ pc.at = "steps"
    /\ index >= Len(input.loaders)
    /\ pc' = [pc EXCEPT !.at = "loaded"]
    /\ UNCHANGED <<atoms, matrix, molecule, atomOp, tempDir, input, skipFile, dataFile,
                   outFiles, index, workflow_data, checkpoint, cache, hist>>

NextLoad ==
    \/ LoadStep
    \/ LoadEnd

SpecLoad == InitLoad /\ [][NextLoad]_vars

\* the last entry converted was a step file
LoadedFile == atomOp.op = "try_from" /\ atomOp.arg.loader = "Loader"

\* C33: loading a step file leaves the working directory of the process as
\* it was before the load, when the load succeeds and when opening or
\* deserializing the file fails.
C33_LoadKeepsWorkingDirectory == LoadedFile => pc.cwd = atomOp.before

=============================================================================
